---- MODULE Spec2Model ----
(***************************************************************************)
(* A model of the gojina client library (package jina):                    *)
(*   - the server-sent-event reader Client.doStream together with its two  *)
(*     callers Client.VLMStream and Client.DeepSearchStream;               *)
(*   - the JSON encoders of the polymorphic request fields                 *)
(*     (EmbeddingInput, ClassificationInput, RerankInput, RerankRequest).  *)
(*   - the decoder of a segmenter token (Token.UnmarshalJSON);              *)
(*   - the ten endpoint calls of Client, from the client configuration to  *)
(*     the request sent and the value returned.                            *)
(*                                                                         *)
(* Text that the code inspects character by character (the lines of a      *)
(* response body) is a sequence of one-character strings.  JSON values are *)
(* tagged records, so that a string, an object and an array never compare  *)
(* equal.                                                                  *)
(***************************************************************************)
EXTENDS Integers, Sequences, FiniteSets, TLC

VARIABLES
    op,         \* the streaming operation called: "VLMStream" or "DeepSearchStream"
    body,       \* the lines of the response body, in wire order
    pc,         \* position of the streaming call: "init", "reading", "done", "failed"
    status,     \* status code of the response (0 before a response arrived)
    pos,        \* number of lines the scanner has returned so far
    delivered,  \* the chunks handed to the caller's callback, in order
    cbRets,     \* what the caller's callback returned, one entry per invocation
    result,     \* the error value returned by the streaming call
    readErr,    \* how reading the body ended: NilErr (not yet), EOFErr or ReadErr
    codecIn,    \* the argument of the function applied (encoder, decoder,
                \* constructor): [kind, val]
    codecOut,   \* what the function returned (NoJSON before the call)
    cfg,        \* the configuration of the client: [APIKey, EUCompliance]
    call,       \* the endpoint call made: [op, req]
    httpReq,    \* the request handed to client.Do: [sent, url, header, body]
    httpResp,   \* the response client.Do returned: [got, status, body]
    callRet,    \* what the call returned: [returned, resp, err]
    running     \* the calls made at the same time on one client, per
                \* goroutine: [op, arg, req, pc, sent]

streamVars == <<op, body, pc, status, pos, delivered, cbRets, result, readErr>>

codecVars == <<codecIn, codecOut>>

callVars == <<cfg, call, httpReq, httpResp, callRet, running>>

vars ==
    <<op, body, pc, status, pos, delivered, cbRets, result, readErr, codecIn, codecOut,
      cfg, call, httpReq, httpResp, callRet, running>>

----------------------------------------------------------------------------
(* Bounds *)

\* longest response body, in lines
MaxLines == 3

\* longest Documents / DocumentsInput list of a rerank request
MaxDocs == 2

\* longest list of ids in the JSON form of a token
MaxIDs == 2

\* longest list of parts of a VLM message content
MaxParts == 2

\* longest list of options passed to NewClient
MaxOptions == 3

\* longest response body of a streaming call made through an endpoint call
MaxCallLines == 1

----------------------------------------------------------------------------
(* Error values.  Every error is a record of the same shape so that any two *)
(* error values can be compared.                                            *)

Err(kind, code, id) == [kind |-> kind, code |-> code, id |-> id]

\* Go's nil error
NilErr == Err("nil", 0, "")

\* the error client.Do returns on a connection-level failure
TransportErr == Err("transport", 0, "")

\* the error json.Marshal returns for a request it cannot encode
MarshalErr == Err("marshal", 0, "")

\* the error http.NewRequestWithContext returns, as for a nil context
NewRequestErr == Err("net/http: nil Context", 0, "")

\* a non-EOF error reported by scanner.Err()
ReadErr == Err("read", 0, "")

\* io.EOF
EOFErr == Err("EOF", 0, "")

\* fmt.Errorf("API error with status code: %d", resp.StatusCode)
StatusErr(code) == Err("status", code, "")

\* fmt.Errorf("failed to unmarshal chunk: %w", err)
UnmarshalChunkErr == Err("unmarshal chunk", 0, "")

\* the errors the caller's callback may return
UserErrs == {Err("user", 0, "e1"), Err("user", 0, "e2")}

StatusOK == 200

\* the status codes a response may carry
Statuses == {StatusOK, 204, 401, 500}

----------------------------------------------------------------------------
(* Lines and payloads *)

StreamOps == {"VLMStream", "DeepSearchStream"}

DataPrefix == <<"d", "a", "t", "a", ":", " ">>

DoneSentinel == <<"[", "D", "O", "N", "E", "]">>

\* a prefix test that leaves out the last character of the prefix
HasPrefix_NoLastChar(s, prefix) ==
    /\ Len(s) >= Len(prefix) - 1
    /\ SubSeq(s, 1, Len(prefix) - 1) = SubSeq(prefix, 1, Len(prefix) - 1)

\* strings.HasPrefix
HasPrefix(s, prefix) ==
    /\ Len(s) >= Len(prefix)
    /\ SubSeq(s, 1, Len(prefix)) = prefix

\* a trim that leaves the last character of the prefix in place
TrimPrefix_KeepsLastChar(s, prefix) ==
    IF HasPrefix(s, prefix) THEN SubSeq(s, Len(prefix), Len(s)) ELSE s

\* strings.TrimPrefix
TrimPrefix(s, prefix) ==
    IF HasPrefix(s, prefix) THEN SubSeq(s, Len(prefix) + 1, Len(s)) ELSE s

\* the identifiers a chunk may carry; the payload {a} abbreviates {"id":"a"}
ChunkIDs == {"a", "b"}

\* the zero value of VLMResponse / DeepSearchResponse
ZeroChunk == [ID |-> ""]

\* json.Unmarshal(data, &chunk): a JSON object decodes into the chunk (the
\* empty object leaves the zero value), everything else is an error.
UnmarshalChunk(data) ==
    IF Len(data) = 3 /\ data[1] = "{" /\ data[3] = "}" /\ data[2] \in ChunkIDs
    THEN [err |-> NilErr, chunk |-> [ID |-> data[2]]]
    ELSE IF data = <<"{", "}">>
    THEN [err |-> NilErr, chunk |-> ZeroChunk]
    ELSE [err |-> Err("json", 0, ""), chunk |-> ZeroChunk]

\* the lines a response body is made of
WireLines ==
    { DataPrefix \o <<"{", "a", "}">>,          \* data: {a}
      DataPrefix \o <<"{", "b", "}">>,          \* data: {b}
      DataPrefix \o <<"{", "}">>,               \* data: {}
      DataPrefix \o DoneSentinel,               \* data: [DONE]
      DataPrefix \o <<"{", "a">>,               \* data: {a     (truncated JSON)
      DataPrefix \o DoneSentinel \o <<" ">>,    \* data: [DONE] with a trailing space
      <<>>,                                     \* blank separator line
      <<"d", "a", "t", "a", ":", "{", "a", "}">>, \* data:{a}   (no space)
      <<":", "k">>,                             \* SSE comment line
      DoneSentinel }                            \* [DONE] without the prefix

Bodies == UNION { [1..n -> WireLines] : n \in 0..MaxLines }

----------------------------------------------------------------------------
(* JSON values, as encoding/json produces them *)

JString(s) == [type |-> "string", val |-> s]

JNumber(n) == [type |-> "number", val |-> n]

JBool(b) == [type |-> "bool", val |-> b]

JNull == [type |-> "null", val |-> <<>>]

\* items: a sequence of JSON values
JArray(items) == [type |-> "array", val |-> items]

\* members: a function from the keys of the object to their JSON values
JObject(members) == [type |-> "object", val |-> members]

\* a number written with a fraction: whole is the part before the point, with
\* its sign, and tenths the digit after it
JDecimal(whole, tenths) == [type |-> "number", val |-> whole, tenths |-> tenths]

\* bytes that are not JSON at all
JInvalid == [type |-> "invalid", val |-> <<>>]

\* codecOut before anything was encoded
NoJSON == [type |-> "none", val |-> <<>>]

\* the keys of a JSON object
Keys(j) == DOMAIN j.val

----------------------------------------------------------------------------
(* The polymorphic request fields *)

\* the strings a Text, Image or PDF field may hold
Texts == {"", "t1", "t2"}

Images == {"", "i1", "i2"}

PDFs == {"", "p1", "p2"}

EmbeddingInputs == [Text : Texts, Image : Images, PDF : PDFs]

ClassificationInputs == [Text : Texts, Image : Images]

\* an encoder that wraps the text in an object as well
MarshalEmbeddingInput_TextObject(e) ==
    IF e.Image # ""
    THEN JObject("image" :> JString(e.Image))
    ELSE IF e.PDF # ""
    THEN JObject("pdf" :> JString(e.PDF))
    ELSE JObject("text" :> JString(e.Text))

\* an encoder that checks PDF before Image
MarshalEmbeddingInput_PDFFirst(e) ==
    IF e.PDF # ""
    THEN JObject("pdf" :> JString(e.PDF))
    ELSE IF e.Image # ""
    THEN JObject("image" :> JString(e.Image))
    ELSE JString(e.Text)

\* EmbeddingInput.MarshalJSON
MarshalEmbeddingInput(e) ==
    IF e.Image # ""
    THEN JObject("image" :> JString(e.Image))
    ELSE IF e.PDF # ""
    THEN JObject("pdf" :> JString(e.PDF))
    ELSE JString(e.Text)

\* ClassificationInput.MarshalJSON
MarshalClassificationInput(c) ==
    IF c.Image # ""
    THEN JObject("image" :> JString(c.Image))
    ELSE JString(c.Text)

\* an encoding of the struct whose tags lack omitempty
MarshalRerankInput_NoOmitEmpty(r) ==
    JObject([k \in {"text", "image"}
             |-> IF k = "text" THEN JString(r.Text) ELSE JString(r.Image)])

\* RerankInput has no MarshalJSON: encoding/json encodes the struct as an
\* object, leaving out a field tagged omitempty when it is the empty string.
MarshalRerankInput(r) ==
    JObject([k \in {f \in {"text", "image"} :
                      \/ f = "text" /\ r.Text # ""
                      \/ f = "image" /\ r.Image # ""}
             |-> IF k = "text" THEN JString(r.Text) ELSE JString(r.Image)])

\* the fields of a rerank request
RerankTexts == {"", "t1"}

RerankImages == {"", "i1"}

RerankInputs == [Text : RerankTexts, Image : RerankImages]

\* a *RerankInput: nil, or a pointer to a RerankInput
RerankInputPtrs ==
    {[nil |-> TRUE, Text |-> "", Image |-> ""]}
        \cup [nil : {FALSE}, Text : RerankTexts, Image : RerankImages]

SeqsUpTo(S, n) == UNION { [1..k -> S] : k \in 0..n }

\* a Go slice: nil, or a (possibly empty) list of elements
Slices(S, n) ==
    {[nil |-> TRUE, elems |-> <<>>]} \cup [nil : {FALSE}, elems : SeqsUpTo(S, n)]

RerankerModelV3 == "jina-reranker-v3"

\* a *bool: nil, or a pointer to a bool
BoolPtrs == {[nil |-> TRUE, val |-> FALSE]} \cup [nil : {FALSE}, val : BOOLEAN]

RerankRequests ==
    [ Model : {RerankerModelV3},
      Query : {"", "q1"},
      Documents : Slices({"", "d1"}, MaxDocs),
      QueryInput : RerankInputPtrs,
      DocumentsInput : Slices(RerankInputs, MaxDocs),
      TopN : {-1, 0, 2},
      ReturnDocuments : BoolPtrs ]

\* json.Marshal of a []string: null for a nil slice, else the array of strings
MarshalStrings(sl) ==
    IF sl.nil THEN JNull
    ELSE JArray([i \in 1..Len(sl.elems) |-> JString(sl.elems[i])])

\* json.Marshal of a []RerankInput
MarshalRerankInputs(sl) ==
    IF sl.nil THEN JNull
    ELSE JArray([i \in 1..Len(sl.elems) |-> MarshalRerankInput(sl.elems[i])])

\* a test of the structured query by its content instead of its presence
UseQueryInput_NonEmpty(r) ==
    ~r.QueryInput.nil /\ (r.QueryInput.Text # "" \/ r.QueryInput.Image # "")

\* RerankRequest.MarshalJSON: r.QueryInput != nil
UseQueryInput(r) == ~r.QueryInput.nil

\* a test of the structured documents by presence instead of length
UseDocumentsInput_NonNil(r) == ~r.DocumentsInput.nil

\* RerankRequest.MarshalJSON: len(r.DocumentsInput) > 0
UseDocumentsInput(r) == Len(r.DocumentsInput.elems) > 0

\* RerankRequest.MarshalJSON
MarshalRerankRequest(r) ==
    LET keys == {"model", "query", "documents"}
                  \cup (IF r.TopN > 0 THEN {"top_n"} ELSE {})
                  \cup (IF ~r.ReturnDocuments.nil THEN {"return_documents"} ELSE {})
        value(k) ==
            CASE k = "model" -> JString(r.Model)
              [] k = "top_n" -> JNumber(r.TopN)
              [] k = "return_documents" -> JBool(r.ReturnDocuments.val)
              [] k = "query" ->
                    IF UseQueryInput(r)
                    THEN MarshalRerankInput(r.QueryInput)
                    ELSE JString(r.Query)
              [] k = "documents" ->
                    IF UseDocumentsInput(r)
                    THEN MarshalRerankInputs(r.DocumentsInput)
                    ELSE MarshalStrings(r.Documents)
    IN JObject([k \in keys |-> value(k)])

----------------------------------------------------------------------------
(* Decoding a token of the segmenter response *)

\* the elements an id list may hold
IDElems == {JNumber(1), JNumber(7), JDecimal(1, 5), JString("1"), JNull}

IDLists == {JArray(l) : l \in SeqsUpTo(IDElems, MaxIDs)}

\* what may stand first and second in the array
TokenFirsts == {JString("hello"), JString(""), JNumber(1), JNull}

TokenSeconds ==
    IDLists \cup {JString("x"), JNumber(1), JNull, JObject("a" :> JNumber(1))}

\* the JSON values handed to Token.UnmarshalJSON
TokenJSONs ==
    {JString("hello"), JNumber(1), JNull, JObject("a" :> JNumber(1)), JInvalid,
     JArray(<<>>)}
        \cup {JArray(<<f>>) : f \in TokenFirsts}
        \cup {JArray(<<f, x>>) : f \in TokenFirsts, x \in TokenSeconds}
        \cup {JArray(<<f, x, y>>) :
                f \in TokenFirsts, x \in TokenSeconds, y \in {JNull, JArray(<<>>)}}

\* json.Unmarshal(data, &raw) with raw []interface{}: an array gives its
\* elements, null leaves the nil slice, anything else is an error
UnmarshalInterfaces(j) ==
    IF j.type = "array" THEN [err |-> NilErr, raw |-> j.val]
    ELSE IF j.type = "null" THEN [err |-> NilErr, raw |-> <<>>]
    ELSE [err |-> Err("json", 0, ""), raw |-> <<>>]

\* an arity test that lets longer arrays through
TokenArityOK_AtLeastTwo(raw) == Len(raw) >= 2

\* Token.UnmarshalJSON: len(raw) != 2 is an error
TokenArityOK(raw) == Len(raw) = 2

\* int(idFloat): the fraction is dropped
IntOfFloat(num) == num.val

\* idRaw.(float64): every JSON number is a float64
IsFloat64(j) == j.type = "number"

\* Token.UnmarshalJSON: the error returned and the fields of the token after
\* the call (Text is assigned before the ids are looked at, and IDs is
\* allocated before the first id is converted)
UnmarshalToken(j) ==
    LET u == UnmarshalInterfaces(j)
        raw == u.raw
        zero == [Text |-> "", IDs |-> <<>>]
    IN IF u.err # NilErr THEN [err |-> u.err] @@ zero
       ELSE IF ~TokenArityOK(raw)
       THEN [err |-> Err("invalid token format: expected 2 elements", Len(raw), "")]
                @@ zero
       ELSE IF raw[1].type # "string"
       THEN [err |-> Err("invalid token format: first element is not string", 0, "")]
                @@ zero
       ELSE IF raw[2].type # "array"
       THEN [err |-> Err("invalid token format: second element is not array", 0, ""),
             Text |-> raw[1].val, IDs |-> <<>>]
       ELSE LET ids == raw[2].val
                bad == {i \in 1..Len(ids) : ~IsFloat64(ids[i])}
                stop == IF bad = {} THEN Len(ids) + 1
                        ELSE CHOOSE i \in bad : \A k \in bad : i <= k
            IN [err |-> IF bad = {} THEN NilErr
                        ELSE Err("invalid token ID: not a number", 0, ""),
                Text |-> raw[1].val,
                IDs |-> [i \in 1..Len(ids) |->
                           IF i < stop THEN IntOfFloat(ids[i]) ELSE 0]]

----------------------------------------------------------------------------
(* VLMMessageContent: a string or a list of parts *)

\* Go strings of this section are sequences of characters; BadByte stands
\* for a byte that is not valid UTF-8 and ReplacementChar for U+FFFD.
BadByte == "0xFF"

ReplacementChar == "U+FFFD"

\* the texts a content or a part may hold
GoTexts == {<<>>, <<"a">>, <<BadByte>>, <<"a", BadByte>>}

\* *VLMImageURL
NilImage == [nil |-> TRUE, URL |-> <<>>]

ImageURL(url) == [nil |-> FALSE, URL |-> url]

\* the zero VLMContentPart
ZeroPart == [Type |-> <<>>, Text |-> <<>>, ImageURL |-> NilImage]

\* the parts a content may hold
ContentParts ==
    {ZeroPart,
     [Type |-> <<"t">>, Text |-> <<"a">>, ImageURL |-> NilImage],
     [Type |-> <<"t">>, Text |-> <<BadByte>>, ImageURL |-> NilImage],
     [Type |-> <<"i">>, Text |-> <<>>, ImageURL |-> ImageURL(<<"u">>)],
     [Type |-> <<"i">>, Text |-> <<>>, ImageURL |-> ImageURL(<<>>)]}

\* the zero VLMMessageContent
ZeroContent == [Text |-> <<>>, Parts |-> [nil |-> TRUE, elems |-> <<>>]]

\* the VLMMessageContent values
Contents == [Text : GoTexts, Parts : Slices(ContentParts, MaxParts)]

\* json.Marshal of a string: invalid bytes become U+FFFD
MarshalString(t) ==
    JString([i \in 1..Len(t) |-> IF t[i] = BadByte THEN ReplacementChar ELSE t[i]])

\* json.Marshal of a VLMContentPart: text and image_url are omitempty
MarshalPart(p) ==
    LET keys == {"type"}
                  \cup (IF p.Text # <<>> THEN {"text"} ELSE {})
                  \cup (IF ~p.ImageURL.nil THEN {"image_url"} ELSE {})
        value(k) ==
            CASE k = "type" -> MarshalString(p.Type)
              [] k = "text" -> MarshalString(p.Text)
              [] k = "image_url" -> JObject("url" :> MarshalString(p.ImageURL.URL))
    IN JObject([k \in keys |-> value(k)])

\* an encoder that prefers the text to the parts
MarshalVLMMessageContent_TextFirst(c) ==
    IF c.Text # <<>>
    THEN MarshalString(c.Text)
    ELSE JArray([i \in 1..Len(c.Parts.elems) |-> MarshalPart(c.Parts.elems[i])])

\* VLMMessageContent.MarshalJSON
MarshalVLMMessageContent(c) ==
    IF Len(c.Parts.elems) > 0
    THEN JArray([i \in 1..Len(c.Parts.elems) |-> MarshalPart(c.Parts.elems[i])])
    ELSE MarshalString(c.Text)

\* a string decoder that takes null for an error
UnmarshalString_RejectsNull(j, old) ==
    IF j.type = "string" THEN [err |-> NilErr, val |-> j.val]
    ELSE [err |-> Err("json", 0, ""), val |-> old]

\* json.Unmarshal into a string holding old: a JSON string is stored, null
\* is accepted and changes nothing, anything else is an error
UnmarshalString(j, old) ==
    IF j.type = "string" THEN [err |-> NilErr, val |-> j.val]
    ELSE IF j.type = "null" THEN [err |-> NilErr, val |-> old]
    ELSE [err |-> Err("json", 0, ""), val |-> old]

\* the member k of the object j, null when the object has no such key
Member(j, k) == IF k \in DOMAIN j.val THEN j.val[k] ELSE JNull

\* json.Unmarshal into a *VLMImageURL: null gives the nil pointer, an object
\* gives a struct whose url member is decoded as a string
UnmarshalImageURL(j) ==
    IF j.type = "null" THEN [err |-> NilErr, val |-> NilImage]
    ELSE IF j.type = "object"
    THEN LET u == UnmarshalString(Member(j, "url"), <<>>)
         IN [err |-> u.err, val |-> ImageURL(u.val)]
    ELSE [err |-> Err("json", 0, ""), val |-> NilImage]

\* json.Unmarshal into a VLMContentPart: null changes nothing, an object
\* gives its known members, unknown members are skipped
UnmarshalPart(j) ==
    IF j.type = "null" THEN [err |-> NilErr, val |-> ZeroPart]
    ELSE IF j.type = "object"
    THEN LET ty == UnmarshalString(Member(j, "type"), <<>>)
             tx == UnmarshalString(Member(j, "text"), <<>>)
             im == UnmarshalImageURL(Member(j, "image_url"))
         IN [err |-> IF ty.err # NilErr THEN ty.err
                     ELSE IF tx.err # NilErr THEN tx.err
                     ELSE im.err,
             val |-> [Type |-> ty.val, Text |-> tx.val, ImageURL |-> im.val]]
    ELSE [err |-> Err("json", 0, ""), val |-> ZeroPart]

\* json.Unmarshal(data, &parts) with parts []VLMContentPart
UnmarshalParts(j) ==
    IF j.type = "null" THEN [err |-> NilErr, val |-> [nil |-> TRUE, elems |-> <<>>]]
    ELSE IF j.type = "array"
    THEN LET ps == [i \in 1..Len(j.val) |-> UnmarshalPart(j.val[i])]
         IN IF \E i \in 1..Len(ps) : ps[i].err # NilErr
            THEN [err |-> Err("json", 0, ""), val |-> [nil |-> TRUE, elems |-> <<>>]]
            ELSE [err |-> NilErr,
                  val |-> [nil |-> FALSE, elems |-> [i \in 1..Len(ps) |-> ps[i].val]]]
    ELSE [err |-> Err("json", 0, ""), val |-> [nil |-> TRUE, elems |-> <<>>]]

\* VLMMessageContent.UnmarshalJSON on the receiver c
UnmarshalVLMMessageContent(c, j) ==
    LET text == UnmarshalString(j, <<>>)
        parts == UnmarshalParts(j)
    IN IF text.err = NilErr
       THEN [err |-> NilErr, c |-> [c EXCEPT !.Text = text.val]]
       ELSE IF parts.err = NilErr
       THEN [err |-> NilErr, c |-> [c EXCEPT !.Parts = parts.val]]
       ELSE [err |-> Err("invalid VLMMessageContent: not a string or array of parts",
                         0, ""),
             c |-> c]

\* the elements an array handed to the decoder may hold
ContentElems ==
    {MarshalPart(p) : p \in ContentParts \ {ZeroPart}}
        \cup {JObject("type" :> JString(<<"t">>) @@ "text" :> JNull),
              JObject("type" :> JNumber(1)),
              JObject("extra" :> JNumber(1)),
              JNull, JNumber(1), JString(<<"a">>), JArray(<<>>)}

\* the JSON values handed to VLMMessageContent.UnmarshalJSON
ContentJSONs ==
    {JString(<<>>), JString(<<"a">>), JNumber(1), JBool(TRUE), JNull, JInvalid,
     JObject("type" :> JString(<<"t">>))}
        \cup {JArray(l) : l \in SeqsUpTo(ContentElems, MaxParts)}

----------------------------------------------------------------------------
(* Client configuration *)

\* defaultConfig()
defaultConfig == [APIKey |-> "", EUCompliance |-> FALSE]

\* an option that keeps a key that is already set
WithAPIKey_KeepsFirst(apiKey, c) ==
    IF c.APIKey = "" THEN [c EXCEPT !.APIKey = apiKey] ELSE c

\* the option WithAPIKey(apiKey), applied to the configuration c
WithAPIKey(apiKey, c) == [c EXCEPT !.APIKey = apiKey]

\* the option WithEUCompliance(), applied to the configuration c
WithEUCompliance(c) == [c EXCEPT !.EUCompliance = TRUE]

APIKeys == {"", "k1", "k2"}

\* the options a caller may pass to NewClient
Options ==
    {[opt |-> "WithAPIKey", apiKey |-> k] : k \in APIKeys}
        \cup {[opt |-> "WithEUCompliance", apiKey |-> ""]}

\* option(cfg)
ApplyOption(o, c) ==
    IF o.opt = "WithAPIKey" THEN WithAPIKey(o.apiKey, c) ELSE WithEUCompliance(c)

\* NewClient: the options are applied in order to the default configuration
RECURSIVE ApplyOptions(_, _)
ApplyOptions(options, c) ==
    IF options = <<>> THEN c
    ELSE ApplyOptions(Tail(options), ApplyOption(Head(options), c))

NewClient(options) == [cfg |-> ApplyOptions(options, defaultConfig)]

\* the clients that NewClient can build
Clients == {NewClient(options) : options \in SeqsUpTo(Options, MaxOptions)}

----------------------------------------------------------------------------
(* The endpoint calls: requests *)

\* the operations that post a JSON request and decode a JSON response
JSONOps == {"Classify", "Rerank", "Embeddings", "Segment", "VLM", "DeepSearch"}

\* the operations with a raw-text / structured response
ReaderOps == {"Reader", "Search"}

EndpointOps == JSONOps \cup ReaderOps \cup StreamOps

\* The request argument of a call.  Only the fields the modelled code reads
\* are kept; every other field of the request holds its zero value.
NoArgs == [none |-> TRUE]

\* One `if <field is set> { Header.Add(header, value) }` of setReaderHeaders
\* or setSearchHeaders: a string field is set when it is not empty and is
\* sent as it is, a bool field is set when true and sends the fixed word, an
\* int field is sent in decimal.
HeaderRule(field, kind, header, word) ==
    [field |-> field, kind |-> kind, header |-> header, word |-> word]

\* setReaderHeaders, the option fields in source order
ReaderHeaderRules ==
    << HeaderRule("TokenBudget", "int", "X-Token-Budget", ""),
       HeaderRule("ContentFormat", "string", "X-Return-Format", ""),
       HeaderRule("BrowserEngine", "string", "X-Engine", ""),
       HeaderRule("Timeout", "int", "X-Timeout", ""),
       HeaderRule("GatherLinks", "string", "X-With-Links-Summary", ""),
       HeaderRule("RemoveAllImages", "bool", "X-Retain-Images", "none"),
       HeaderRule("GatherImages", "string", "X-With-Images-Summary", ""),
       HeaderRule("ImageCaption", "bool", "X-With-Generated-Alt", "true"),
       HeaderRule("ProxyCountry", "string", "X-Proxy", ""),
       HeaderRule("ProxyURL", "string", "X-Proxy-Url", ""),
       HeaderRule("BrowserLocale", "string", "X-Locale", ""),
       HeaderRule("BypassCachedContent", "bool", "X-No-Cache", "true"),
       HeaderRule("TargetSelector", "string", "X-Target-Selector", ""),
       HeaderRule("WaitForSelector", "string", "X-Wait-For-Selector", ""),
       HeaderRule("RemoveSelector", "string", "X-Remove-Selector", ""),
       HeaderRule("WithIframe", "bool", "X-With-Iframe", "true"),
       HeaderRule("WithShadowDom", "bool", "X-With-Shadow-Dom", "true"),
       HeaderRule("RespondWith", "string", "X-Respond-With", ""),
       HeaderRule("SetCookie", "string", "X-Set-Cookie", ""),
       HeaderRule("DNT", "int", "DNT", ""),
       HeaderRule("NoGfm", "string", "X-No-Gfm", ""),
       HeaderRule("RobotsTxt", "string", "X-Robots-Txt", ""),
       HeaderRule("Base", "string", "X-Base", ""),
       HeaderRule("MdHeadingStyle", "string", "X-Md-Heading-Style", ""),
       HeaderRule("MdHr", "string", "X-Md-Hr", ""),
       HeaderRule("MdBulletListMarker", "string", "X-Md-Bullet-List-Marker", ""),
       HeaderRule("MdEmDelimiter", "string", "X-Md-Em-Delimiter", ""),
       HeaderRule("MdStrongDelimiter", "string", "X-Md-Strong-Delimiter", ""),
       HeaderRule("MdLinkStyle", "string", "X-Md-Link-Style", ""),
       HeaderRule("MdLinkReferenceStyle", "string", "X-Md-Link-Reference-Style", "") >>

\* setSearchHeaders, the option fields in source order
SearchHeaderRules ==
    << HeaderRule("Site", "string", "X-Site", ""),
       HeaderRule("WithLinksSummary", "bool", "X-With-Links-Summary", "true"),
       HeaderRule("WithImagesSummary", "bool", "X-With-Images-Summary", "true"),
       HeaderRule("RetainImages", "string", "X-Retain-Images", ""),
       HeaderRule("NoCache", "bool", "X-No-Cache", "true"),
       HeaderRule("WithGeneratedAlt", "bool", "X-With-Generated-Alt", "true"),
       HeaderRule("RespondWith", "string", "X-Respond-With", ""),
       HeaderRule("WithFavicon", "bool", "X-With-Favicon", "true"),
       HeaderRule("ReturnFormat", "string", "X-Return-Format", ""),
       HeaderRule("Engine", "string", "X-Engine", ""),
       HeaderRule("WithFavicons", "bool", "X-With-Favicons", "true"),
       HeaderRule("Timeout", "int", "X-Timeout", ""),
       HeaderRule("SetCookie", "string", "X-Set-Cookie", ""),
       HeaderRule("ProxyURL", "string", "X-Proxy-Url", ""),
       HeaderRule("Locale", "string", "X-Locale", "") >>

\* the zero value of a field of the given kind
ZeroOf(kind) ==
    CASE kind = "string" -> "" [] kind = "bool" -> FALSE [] kind = "int" -> 0

\* the values a caller may give to a field of the given kind
ValuesOf(kind) ==
    CASE kind = "string" -> {"", "v"}
      [] kind = "bool" -> BOOLEAN
      [] kind = "int" -> {-1, 0, 5}

\* the option fields of a request, all at their zero value
ZeroOptions(rules) ==
    [f \in {rules[i].field : i \in 1..Len(rules)} |->
        ZeroOf(rules[CHOOSE i \in 1..Len(rules) : rules[i].field = f].kind)]

\* every option field set to a value that is sent
AllOptions(rules) ==
    [f \in {rules[i].field : i \in 1..Len(rules)} |->
        LET kind == rules[CHOOSE i \in 1..Len(rules) : rules[i].field = f].kind
        IN CASE kind = "string" -> "v" [] kind = "bool" -> TRUE [] kind = "int" -> 5]

\* The option fields of the requests of the model: none set, each field alone
\* at each of its values, and all set together.
OptionSettings(rules) ==
    {ZeroOptions(rules), AllOptions(rules)}
        \cup UNION {{[ZeroOptions(rules) EXCEPT ![rules[i].field] = v] :
                        v \in ValuesOf(rules[i].kind)} : i \in 1..Len(rules)}

ReaderRequests ==
    {base @@ o :
        base \in [URL : {"", "https://example.com"}, EUCompliance : BOOLEAN,
                  JSONResponse : BOOLEAN],
        o \in OptionSettings(ReaderHeaderRules)}

SearchRequests ==
    {base @@ o :
        base \in [Query : {"", "jina"}, EUCompliance : BOOLEAN,
                  JSONResponse : BOOLEAN],
        o \in OptionSettings(SearchHeaderRules)}

VLMModelDefault == "jina-vlm"

DeepSearchModelDefault == "jina-deepsearch-v1"

\* VLMRequest and DeepSearchRequest: the two fields the calls overwrite
ChatRequests == [Model : {"", "custom-model"}, Stream : BOOLEAN]

Calls ==
    {[op |-> o, req |-> NoArgs] : o \in {"Classify", "Rerank", "Embeddings", "Segment"}}
        \cup {[op |-> o, req |-> r] :
                o \in {"VLM", "DeepSearch", "VLMStream", "DeepSearchStream"},
                r \in ChatRequests}
        \cup {[op |-> "Reader", req |-> r] : r \in ReaderRequests}
        \cup {[op |-> "Search", req |-> r] : r \in SearchRequests}

NoCall == [op |-> "none", req |-> NoArgs]

\* a header with no field
EmptyHeader == [n \in {} |-> <<>>]

\* http.Header.Set: the values of the field are replaced by the one value
HeaderSet(h, name, value) ==
    [n \in DOMAIN h \cup {name} |-> IF n = name THEN <<value>> ELSE h[n]]

\* http.Header.Add: the value is appended to the values of the field
HeaderAdd(h, name, value) ==
    [n \in DOMAIN h \cup {name} |->
        IF n # name THEN h[n]
        ELSE IF name \in DOMAIN h THEN Append(h[name], value) ELSE <<value>>]

\* no request was handed to client.Do
NoRequest == [sent |-> FALSE, url |-> "", header |-> EmptyHeader, body |-> NoArgs]

NewRequest(url, header, reqBody) ==
    [sent |-> TRUE, url |-> url, header |-> header, body |-> reqBody]

ClassifyURL == "https://api.jina.ai/v1/classify"

RerankURL == "https://api.jina.ai/v1/rerank"

EmbeddingsURL == "https://api.jina.ai/v1/embeddings"

SegmentURL == "https://segment.jina.ai/"

VLMURL == "https://api-beta-vlm.jina.ai/v1/chat/completions"

DeepSearchURL == "https://deepsearch.jina.ai/v1/chat/completions"

\* if cl.cfg.APIKey != "" { Header.Set("Authorization", "Bearer "+cl.cfg.APIKey) }
BearerHeader(c, h) ==
    IF c.APIKey # ""
    THEN HeaderSet(h, "Authorization", "Bearer " \o c.APIKey)
    ELSE h

\* the header of the six JSON operations and of the two streaming ones:
\* Content-Type, Accept, and Authorization under its guard
EndpointHeader(c, accept) ==
    BearerHeader(c,
        HeaderSet(HeaderSet(EmptyHeader, "Content-Type", "application/json"),
                  "Accept", accept))

\* a Reader call that keeps the per-call region whatever the client says
ClientEUCompliance_Ignored(c, r) == r

\* Reader, Search: if cl.cfg.EUCompliance { req.EUCompliance = true }
ClientEUCompliance(c, r) ==
    IF c.EUCompliance THEN [r EXCEPT !.EUCompliance = TRUE] ELSE r

\* buildReaderURL
buildReaderURL(args) ==
    IF args.EUCompliance THEN "https://eu.r.jina.ai/" ELSE "https://r.jina.ai/"

\* a Search URL without the regional variant
buildSearchURL_NoRegion(args) == "https://s.jina.ai/"

\* buildSearchURL
buildSearchURL(args) ==
    IF args.EUCompliance THEN "https://eu.s.jina.ai/" ELSE "https://s.jina.ai/"

\* a test that takes every integer but 0 for set
IntOptionSet_NonZero(n) == n # 0

\* if req.Timeout > 0, if req.TokenBudget > 0, if req.DNT > 0
IntOptionSet(n) == n > 0

\* the condition of the `if` of a rule
OptionSet(rule, r) ==
    CASE rule.kind = "string" -> r[rule.field] # ""
      [] rule.kind = "bool" -> r[rule.field]
      [] rule.kind = "int" -> IntOptionSet(r[rule.field])

\* the value the rule sends
OptionValue(rule, r) ==
    CASE rule.kind = "string" -> r[rule.field]
      [] rule.kind = "bool" -> rule.word
      [] rule.kind = "int" -> ToString(r[rule.field])

\* the `if`s of the rules, run in order on the header h
RECURSIVE ApplyHeaderRules(_, _, _)
ApplyHeaderRules(rules, r, h) ==
    IF rules = <<>> THEN h
    ELSE ApplyHeaderRules(Tail(rules), r,
            IF OptionSet(Head(rules), r)
            THEN HeaderAdd(h, Head(rules).header, OptionValue(Head(rules), r))
            ELSE h)

\* a Reader header that asks for an event stream when JSON is not requested
setReaderHeaders_AcceptStream(c, h, r) ==
    LET auth == HeaderAdd(h, "Authorization", "Bearer " \o c.APIKey)
        opts == ApplyHeaderRules(ReaderHeaderRules, r, auth)
    IN HeaderAdd(opts, "Accept",
                 IF r.JSONResponse THEN "application/json" ELSE "text/event-stream")

\* setReaderHeaders: Authorization is added without a test of the key, then
\* the option headers, then Accept only when the JSON response is requested
setReaderHeaders(c, h, r) ==
    LET auth == HeaderAdd(h, "Authorization", "Bearer " \o c.APIKey)
        opts == ApplyHeaderRules(ReaderHeaderRules, r, auth)
    IN IF r.JSONResponse THEN HeaderAdd(opts, "Accept", "application/json") ELSE opts

\* setSearchHeaders: Authorization, Accept when the JSON response is
\* requested, then the option headers
setSearchHeaders(c, h, r) ==
    LET auth == HeaderAdd(h, "Authorization", "Bearer " \o c.APIKey)
        accept == IF r.JSONResponse
                  THEN HeaderAdd(auth, "Accept", "application/json")
                  ELSE auth
    IN ApplyHeaderRules(SearchHeaderRules, r, accept)

\* VLM, DeepSearch and their streaming forms: an empty Model becomes the
\* default, and Stream is overwritten by the operation
\* a copy of the request that keeps the Stream the caller passed
ChatBody_KeepsStream(r, modelDefault, stream) ==
    [Model |-> IF r.Model = "" THEN modelDefault ELSE r.Model, Stream |-> r.Stream]

ChatBody(r, modelDefault, stream) ==
    [Model |-> IF r.Model = "" THEN modelDefault ELSE r.Model, Stream |-> stream]

\* json.Marshal of a VLMRequest or DeepSearchRequest whose other fields are at
\* their zero value: `model` and `messages` are always written (a nil slice as
\* null), `stream` has omitempty and is written only when true
MarshalChatRequest(r) ==
    JObject([k \in {"model", "messages"} \cup (IF r.Stream THEN {"stream"} ELSE {}) |->
                CASE k = "model" -> JString(r.Model)
                  [] k = "messages" -> JNull
                  [] k = "stream" -> JBool(r.Stream)])

\* The operations whose request can hold a value json.Marshal rejects: the
\* raw JSONSchema of a DeepSearch response format that is not valid JSON.
\* The other requests are made of strings, numbers, booleans and marshallers
\* that cannot fail.
MarshalFails == {"DeepSearch", "DeepSearchStream"}

\* what can go wrong before the request exists: json.Marshal or
\* http.NewRequestWithContext returns an error
PreSendErrs(o) ==
    {NilErr, NewRequestErr} \cup (IF o \in MarshalFails THEN {MarshalErr} ELSE {})

\* a skipped validation
validateReader_Skipped(r) == NilErr

\* if req.URL == "" { return nil, fmt.Errorf("URL is required") }
validateReader(r) == IF r.URL = "" THEN Err("URL is required", 0, "") ELSE NilErr

\* if req.Query == "" { return nil, fmt.Errorf("query is required") }
validateSearch(r) == IF r.Query = "" THEN Err("query is required", 0, "") ELSE NilErr

----------------------------------------------------------------------------
(* The endpoint calls: responses *)

\* The bodies a server may answer with, as the text on the wire.
BodyDetail == "{\"detail\":\"bad model\"}"

BodyCode == "{\"code\":200}"

BodyCodeText == "{\"code\":\"x\"}"

BodyNull == "null"

BodyArray == "[1]"

BodyHTML == "<html>"

BodyEmpty == ""

BodyTrailing == BodyDetail \o " trailing"

RespBodies ==
    {BodyDetail, BodyCode, BodyCodeText, BodyNull, BodyArray, BodyHTML, BodyEmpty,
     BodyTrailing}

\* the mapping with no key
EmptyMap == [k \in {} |-> JNull]

\* json.NewDecoder(r).Decode: the first JSON value of the text; what follows
\* it is not looked at
FirstValue(raw) ==
    CASE raw \in {BodyDetail, BodyTrailing} -> JObject("detail" :> JString("bad model"))
      [] raw = BodyCode -> JObject("code" :> JNumber(200))
      [] raw = BodyCodeText -> JObject("code" :> JString("x"))
      [] raw = BodyNull -> JNull
      [] raw = BodyArray -> JArray(<<JNumber(1)>>)
      [] OTHER -> JInvalid

\* json.Unmarshal: the text as one JSON value; text after the value is an error
WholeValue(raw) == IF raw = BodyTrailing THEN JInvalid ELSE FirstValue(raw)

\* no response arrived
NoResponse == [got |-> FALSE, status |-> 0, body |-> ""]

Response(st, raw) == [got |-> TRUE, status |-> st, body |-> raw]

\* the nil response pointer of a call that failed
NilResp == [nil |-> TRUE]

\* the call has not returned
NotReturned == [returned |-> FALSE, resp |-> NilResp, err |-> NilErr]

Return(resp, err) == [returned |-> TRUE, resp |-> resp, err |-> err]

\* fmt.Errorf(msg + ": %w", err)
WrapErr(msg, err) == Err(msg, err.code, err.kind)

\* the error of a JSON or streaming operation that failed before the request
\* existed
PreSendError(e) ==
    IF e = MarshalErr THEN WrapErr("failed to marshal request", e)
    ELSE WrapErr("failed to create request", e)

\* the same for Reader and Search
ReaderPreSendError(e) ==
    IF e = MarshalErr THEN WrapErr("failed to marshal request", e)
    ELSE WrapErr("create request", e)

\* the error of client.Do handed back as it is
ReaderDoError_Bare(e) == e

\* Reader and Search: fmt.Errorf("do request: %w", err)
ReaderDoError(e) == WrapErr("do request", e)

\* fmt.Sprintf("%v", v) of a decoded JSON string or number
FormatValue(j) == IF j.type = "string" THEN j.val ELSE ToString(j.val)

\* fmt.Sprintf("%v", m) of a map[string]interface{} with at most one key
FormatMap(m) ==
    IF DOMAIN m = {} THEN "map[]"
    ELSE LET k == CHOOSE key \in DOMAIN m : TRUE
         IN "map[" \o k \o ":" \o FormatValue(m[k]) \o "]"

\* Decode(&errResp) with errResp map[string]interface{}: an object gives its
\* mapping, null leaves the nil map, anything else is an error
DecodeMap(raw) ==
    LET v == FirstValue(raw)
    IN IF v.type = "object" THEN [err |-> NilErr, m |-> v.val]
       ELSE IF v.type = "null" THEN [err |-> NilErr, m |-> EmptyMap]
       ELSE [err |-> Err("json", 0, ""), m |-> EmptyMap]

\* an error branch that never reads the body
APIError_StatusOnly(st, raw) == Err("API error with status code: %d", st, "")

\* the six JSON operations on a status other than 200: the decoded mapping
\* when the body decodes, the status code when it does not
APIError(st, raw) ==
    LET d == DecodeMap(raw)
    IN IF d.err = NilErr
       THEN Err("API error: %v", 0, FormatMap(d.m))
       ELSE Err("API error with status code: %d", st, "")

\* an error branch that leaves the body text out
ReaderAPIError_NoBody(st, raw) == Err("API error: status %d, body: %s", st, "")

\* Reader and Search on a status other than 200: the status code and the
\* text of the body
ReaderAPIError(st, raw) == Err("API error: status %d, body: %s", st, raw)

\* Decode(&result) with result one of the response structs of the six JSON
\* operations; none of them has a field named detail or code
DecodeResult(raw) ==
    LET v == FirstValue(raw)
    IN IF v.type = "object" THEN [err |-> NilErr, val |-> v.val]
       ELSE IF v.type = "null" THEN [err |-> NilErr, val |-> EmptyMap]
       ELSE [err |-> Err("json", 0, ""), val |-> EmptyMap]

\* &result
Result(v) == [nil |-> FALSE, result |-> v]

\* json.Unmarshal(body, &structured): the field code is an int
UnmarshalStructured(raw) ==
    LET v == WholeValue(raw)
    IN IF v.type = "null" THEN [err |-> NilErr, val |-> EmptyMap]
       ELSE IF v.type = "object"
                 /\ ("code" \in DOMAIN v.val => v.val["code"].type = "number")
       THEN [err |-> NilErr, val |-> v.val]
       ELSE [err |-> Err("json", 0, ""), val |-> EmptyMap]

\* the Structured pointer of a raw-text response
NilStructured == [nil |-> TRUE, val |-> EmptyMap]

\* a parser that returns the structured form whenever the body is JSON
parseReaderResponse_Sniffs(raw, jsonResponse) ==
    LET u == UnmarshalStructured(raw)
    IN IF u.err = NilErr
       THEN Return([nil |-> FALSE, Text |-> "",
                    Structured |-> [nil |-> FALSE, val |-> u.val]], NilErr)
       ELSE IF jsonResponse
       THEN Return(NilResp, WrapErr("unmarshal response body", u.err))
       ELSE Return([nil |-> FALSE, Text |-> raw, Structured |-> NilStructured], NilErr)

\* parseReaderResponse
parseReaderResponse(raw, jsonResponse) ==
    IF jsonResponse
    THEN LET u == UnmarshalStructured(raw)
         IN IF u.err # NilErr
            THEN Return(NilResp, WrapErr("unmarshal response body", u.err))
            ELSE Return([nil |-> FALSE, Text |-> "",
                         Structured |-> [nil |-> FALSE, val |-> u.val]], NilErr)
    ELSE Return([nil |-> FALSE, Text |-> raw, Structured |-> NilStructured], NilErr)

\* parseSearchResponse
parseSearchResponse(raw, jsonResponse) ==
    IF jsonResponse
    THEN LET u == UnmarshalStructured(raw)
         IN IF u.err # NilErr
            THEN Return(NilResp, WrapErr("unmarshal response body", u.err))
            ELSE Return([nil |-> FALSE, Text |-> "",
                         Structured |-> [nil |-> FALSE, val |-> u.val]], NilErr)
    ELSE Return([nil |-> FALSE, Text |-> raw, Structured |-> NilStructured], NilErr)

\* the goroutines that call the client at the same time
Callers == {"g1", "g2"}

\* no goroutine is in a call
NoneRunning ==
    [g \in Callers |->
        [op |-> "none", arg |-> NoArgs, req |-> NoArgs, pc |-> "idle", sent |-> NoRequest]]

\* no endpoint call is under way
CallIdle ==
    /\ cfg = defaultConfig
    /\ call = NoCall
    /\ httpReq = NoRequest
    /\ httpResp = NoResponse
    /\ callRet = NotReturned
    /\ running = NoneRunning

----------------------------------------------------------------------------
(* The streaming call *)

\* The closure VLMStream / DeepSearchStream pass to doStream: decode the
\* payload and hand the chunk to the caller's callback, whose return value
\* is ret.  Yields the error the closure returns and the new history of the
\* caller's callback.
\* a closure that skips a payload it cannot decode
ChunkCallback_SkipsBadChunk(data, ret, dl, rets) ==
    LET u == UnmarshalChunk(data) IN
    IF u.err # NilErr
    THEN [err |-> NilErr, delivered |-> dl, cbRets |-> rets]
    ELSE [err |-> ret,
          delivered |-> Append(dl, u.chunk),
          cbRets |-> Append(rets, ret)]

\* a closure that wraps the error of the caller's callback
ChunkCallback_WrapsError(data, ret, dl, rets) ==
    LET u == UnmarshalChunk(data) IN
    IF u.err # NilErr
    THEN [err |-> UnmarshalChunkErr, delivered |-> dl, cbRets |-> rets]
    ELSE [err |-> IF ret = NilErr THEN NilErr ELSE Err("callback failed", 0, ret.id),
          delivered |-> Append(dl, u.chunk),
          cbRets |-> Append(rets, ret)]

ChunkCallback(data, ret, dl, rets) ==
    LET u == UnmarshalChunk(data) IN
    IF u.err # NilErr
    THEN [err |-> UnmarshalChunkErr, delivered |-> dl, cbRets |-> rets]
    ELSE [err |-> ret,
          delivered |-> Append(dl, u.chunk),
          cbRets |-> Append(rets, ret)]

VLMStreamCallback(data, ret, dl, rets) == ChunkCallback(data, ret, dl, rets)

DeepSearchStreamCallback(data, ret, dl, rets) == ChunkCallback(data, ret, dl, rets)

StreamCallback(o, data, ret, dl, rets) ==
    IF o = "VLMStream"
    THEN VLMStreamCallback(data, ret, dl, rets)
    ELSE DeepSearchStreamCallback(data, ret, dl, rets)

\* a status check that lets every 2xx status through
StatusIsError_Not2xx(st) == st < 200 \/ st > 299

\* doStream: resp.StatusCode != http.StatusOK
StatusIsError(st) == st # StatusOK

\* a sentinel test against DONE without the brackets
IsDone_NoBrackets(data) == data = SubSeq(DoneSentinel, 2, Len(DoneSentinel) - 1)

\* doStream: data == "[DONE]"
IsDone(data) == data = DoneSentinel

\* doStream, client.Do and the status check: a transport failure or a
\* status other than 200 ends the call before the body is looked at.
DoRequest ==
    /\ pc = "init"
    /\ \E doErr \in {NilErr, TransportErr}, st \in Statuses :
         IF doErr # NilErr
         THEN /\ pc' = "failed"
              /\ result' = doErr
              /\ UNCHANGED status
         ELSE /\ status' = st
              /\ IF StatusIsError(st)
                 THEN pc' = "failed" /\ result' = StatusErr(st)
                 ELSE pc' = "reading" /\ UNCHANGED result
    /\ UNCHANGED <<op, body, pos, delivered, cbRets, readErr>>
    /\ UNCHANGED <<codecVars, callVars>>

\* doStream, one turn of the scanner loop: scanner.Scan() returned a line.
ScanLine ==
    /\ pc = "reading"
    /\ pos < Len(body)
    /\ pos' = pos + 1
    /\ LET line == body[pos + 1] IN
       IF HasPrefix(line, DataPrefix)
       THEN LET data == TrimPrefix(line, DataPrefix) IN
            IF IsDone(data)
            THEN /\ pc' = "done"
                 /\ result' = NilErr
                 /\ UNCHANGED <<delivered, cbRets>>
            ELSE \E ret \in {NilErr} \cup UserErrs :
                   LET out == StreamCallback(op, data, ret, delivered, cbRets) IN
                   /\ delivered' = out.delivered
                   /\ cbRets' = out.cbRets
                   /\ IF out.err # NilErr
                      THEN pc' = "failed" /\ result' = out.err
                      ELSE UNCHANGED <<pc, result>>
       ELSE UNCHANGED <<pc, result, delivered, cbRets>>
    /\ UNCHANGED <<op, body, status, readErr>>
    /\ UNCHANGED <<codecVars, callVars>>

\* bufio.Scanner.Err(): nil when the read ended with io.EOF
ScannerErr(e) == IF e = EOFErr THEN NilErr ELSE e

\* an end of loop that takes every end of the read for a clean one
AfterLoop_SwallowsErrors(scanErr) == NilErr

\* an end of loop that takes a body without sentinel for an error
AfterLoop_WantsSentinel(scanErr) ==
    IF scanErr # NilErr THEN scanErr ELSE Err("unexpected EOF", 0, "")

\* doStream after the loop: what the call returns once scanner.Scan() has
\* returned false with scanner.Err() = scanErr.
AfterLoop(scanErr) ==
    IF scanErr = EOFErr THEN NilErr
    ELSE IF scanErr # NilErr THEN scanErr
    ELSE NilErr

\* doStream, scanner.Scan() returned false: the body ended (io.EOF, only
\* once every line was returned) or the read failed.
ScanEnd ==
    /\ pc = "reading"
    /\ \E e \in {EOFErr, ReadErr} :
         /\ e = EOFErr => pos = Len(body)
         /\ readErr' = e
         /\ result' = AfterLoop(ScannerErr(e))
         /\ pc' = IF result' = NilErr THEN "done" ELSE "failed"
    /\ UNCHANGED <<op, body, status, pos, delivered, cbRets>>
    /\ UNCHANGED <<codecVars, callVars>>

\* no streaming call is under way
StreamIdle ==
    /\ op = "none"
    /\ body = <<>>
    /\ pc = "idle"
    /\ status = 0
    /\ pos = 0
    /\ delivered = <<>>
    /\ cbRets = <<>>
    /\ result = NilErr
    /\ readErr = NilErr

\* no value is being encoded
CodecIdle ==
    /\ codecIn = [kind |-> "none", val |-> <<>>]
    /\ codecOut = NoJSON

Init ==
    /\ CodecIdle
    /\ CallIdle
    /\ op \in StreamOps
    /\ body \in Bodies
    /\ pc = "init"
    /\ status = 0
    /\ pos = 0
    /\ delivered = <<>>
    /\ cbRets = <<>>
    /\ result = NilErr
    /\ readErr = NilErr

Next ==
    \/ DoRequest
    \/ ScanLine
    \/ ScanEnd

Spec == Init /\ [][Next]_vars

----------------------------------------------------------------------------
(* Encoding a request field or a request *)

\* json.Marshal of an EmbeddingInput
EncodeEmbeddingInput ==
    /\ codecIn.kind = "EmbeddingInput"
    /\ codecOut = NoJSON
    /\ codecOut' = MarshalEmbeddingInput(codecIn.val)
    /\ UNCHANGED <<codecIn, streamVars, callVars>>

\* json.Marshal of a ClassificationInput
EncodeClassificationInput ==
    /\ codecIn.kind = "ClassificationInput"
    /\ codecOut = NoJSON
    /\ codecOut' = MarshalClassificationInput(codecIn.val)
    /\ UNCHANGED <<codecIn, streamVars, callVars>>

\* json.Marshal of a RerankRequest
EncodeRerankRequest ==
    /\ codecIn.kind = "RerankRequest"
    /\ codecOut = NoJSON
    /\ codecOut' = MarshalRerankRequest(codecIn.val)
    /\ UNCHANGED <<codecIn, streamVars, callVars>>

\* Token.UnmarshalJSON
DecodeToken ==
    /\ codecIn.kind = "Token"
    /\ codecOut = NoJSON
    /\ codecOut' = [type |-> "token", val |-> UnmarshalToken(codecIn.val)]
    /\ UNCHANGED <<codecIn, streamVars, callVars>>

\* VLMMessageContent.MarshalJSON
EncodeContent ==
    /\ codecIn.kind = "VLMMessageContent"
    /\ codecOut = NoJSON
    /\ codecOut' = MarshalVLMMessageContent(codecIn.val)
    /\ UNCHANGED <<codecIn, streamVars, callVars>>

\* VLMMessageContent.UnmarshalJSON of the encoding, on a fresh value
DecodeEncodedContent ==
    /\ codecIn.kind = "VLMMessageContent"
    /\ codecOut.type \in {"string", "array"}
    /\ codecOut' = [type |-> "content", json |-> codecOut,
                    val |-> UnmarshalVLMMessageContent(ZeroContent, codecOut)]
    /\ UNCHANGED <<codecIn, streamVars, callVars>>

\* VLMMessageContent.UnmarshalJSON of a JSON value, on a fresh value
DecodeContent ==
    /\ codecIn.kind = "ContentJSON"
    /\ codecOut = NoJSON
    /\ codecOut' = [type |-> "content", json |-> codecIn.val,
                    val |-> UnmarshalVLMMessageContent(ZeroContent, codecIn.val)]
    /\ UNCHANGED <<codecIn, streamVars, callVars>>

\* NewClient(options...)
BuildClient ==
    /\ codecIn.kind = "Options"
    /\ codecOut = NoJSON
    /\ codecOut' = [type |-> "client", val |-> NewClient(codecIn.val)]
    /\ UNCHANGED <<codecIn, streamVars, callVars>>

CodecInit ==
    /\ StreamIdle
    /\ CallIdle
    /\ codecOut = NoJSON
    /\ \/ \E e \in EmbeddingInputs : codecIn = [kind |-> "EmbeddingInput", val |-> e]
       \/ \E c \in ClassificationInputs :
            codecIn = [kind |-> "ClassificationInput", val |-> c]
       \/ \E r \in RerankRequests : codecIn = [kind |-> "RerankRequest", val |-> r]
       \/ \E j \in TokenJSONs : codecIn = [kind |-> "Token", val |-> j]
       \/ \E c \in Contents : codecIn = [kind |-> "VLMMessageContent", val |-> c]
       \/ \E j \in ContentJSONs : codecIn = [kind |-> "ContentJSON", val |-> j]
       \/ \E o \in SeqsUpTo(Options, MaxOptions) :
            codecIn = [kind |-> "Options", val |-> o]

CodecNext ==
    \/ EncodeEmbeddingInput
    \/ EncodeClassificationInput
    \/ EncodeRerankRequest
    \/ DecodeToken
    \/ BuildClient
    \/ EncodeContent
    \/ DecodeEncodedContent
    \/ DecodeContent

CodecSpec == CodecInit /\ [][CodecNext]_vars

----------------------------------------------------------------------------
(* The endpoint calls *)

\* a decode failure handed back together with the value decoded so far
JSONReturn_PartialOnDecodeError(st, raw) ==
    IF st # StatusOK
    THEN Return(NilResp, APIError(st, raw))
    ELSE LET d == DecodeResult(raw)
         IN IF d.err # NilErr
            THEN Return(Result(d.val), WrapErr("failed to decode response", d.err))
            ELSE Return(Result(d.val), NilErr)

\* what a JSON operation returns for the response it received
JSONReturn(st, raw) ==
    IF st # StatusOK
    THEN Return(NilResp, APIError(st, raw))
    ELSE LET d == DecodeResult(raw)
         IN IF d.err # NilErr
            THEN Return(NilResp, WrapErr("failed to decode response", d.err))
            ELSE Return(Result(d.val), NilErr)

\* The six JSON operations from client.Do to the return.  The body is read
\* by the decoder, which stops after the first JSON value, so raw is the text
\* that reached the decoder.
JSONExchange ==
    \E doErr \in {NilErr, TransportErr}, st \in Statuses, raw \in RespBodies :
        IF doErr # NilErr
        THEN /\ httpResp' = NoResponse
             /\ callRet' = Return(NilResp, doErr)
        ELSE /\ httpResp' = Response(st, raw)
             /\ callRet' = JSONReturn(st, raw)

\* A JSON operation from json.Marshal to the return: the request is marshalled
\* and built, which may fail before anything is sent, then sent.
JSONCall(url, reqBody) ==
    \E pre \in PreSendErrs(call.op) :
        IF pre # NilErr
        THEN /\ callRet' = Return(NilResp, PreSendError(pre))
             /\ UNCHANGED <<httpReq, httpResp>>
        ELSE /\ httpReq' = NewRequest(url, EndpointHeader(cfg, "application/json"),
                                      reqBody)
             /\ JSONExchange

\* Client.Classify
Classify ==
    /\ call.op = "Classify"
    /\ ~callRet.returned
    /\ JSONCall(ClassifyURL, call.req)
    /\ UNCHANGED <<cfg, call, running, streamVars, codecVars>>

\* Client.Rerank
Rerank ==
    /\ call.op = "Rerank"
    /\ ~callRet.returned
    /\ JSONCall(RerankURL, call.req)
    /\ UNCHANGED <<cfg, call, running, streamVars, codecVars>>

\* Client.Embeddings
Embeddings ==
    /\ call.op = "Embeddings"
    /\ ~callRet.returned
    /\ JSONCall(EmbeddingsURL, call.req)
    /\ UNCHANGED <<cfg, call, running, streamVars, codecVars>>

\* Client.Segment
Segment ==
    /\ call.op = "Segment"
    /\ ~callRet.returned
    /\ JSONCall(SegmentURL, call.req)
    /\ UNCHANGED <<cfg, call, running, streamVars, codecVars>>

\* Client.VLM
VLM ==
    /\ call.op = "VLM"
    /\ ~callRet.returned
    /\ JSONCall(VLMURL, MarshalChatRequest(ChatBody(call.req, VLMModelDefault, FALSE)))
    /\ UNCHANGED <<cfg, call, running, streamVars, codecVars>>

\* Client.DeepSearch
DeepSearch ==
    /\ call.op = "DeepSearch"
    /\ ~callRet.returned
    /\ JSONCall(DeepSearchURL, MarshalChatRequest(ChatBody(call.req, DeepSearchModelDefault, FALSE)))
    /\ UNCHANGED <<cfg, call, running, streamVars, codecVars>>

\* Client.Reader.  On a status other than 200 the error of io.ReadAll is
\* dropped and raw is the text read; on status 200 a read error ends the call.
Reader ==
    /\ call.op = "Reader"
    /\ ~callRet.returned
    /\ \E pre \in PreSendErrs(call.op) :
         IF validateReader(call.req) # NilErr
         THEN /\ callRet' = Return(NilResp, validateReader(call.req))
              /\ UNCHANGED <<httpReq, httpResp>>
         ELSE IF pre # NilErr
         THEN /\ callRet' = Return(NilResp, ReaderPreSendError(pre))
              /\ UNCHANGED <<httpReq, httpResp>>
         ELSE LET r == ClientEUCompliance(cfg, call.req)
                  h == HeaderSet(EmptyHeader, "Content-Type", "application/json")
              IN /\ httpReq' = NewRequest(buildReaderURL(r), setReaderHeaders(cfg, h, r), r)
                 /\ \E doErr \in {NilErr, TransportErr}, st \in Statuses,
                       raw \in RespBodies, rdErr \in {NilErr, ReadErr} :
                      IF doErr # NilErr
                      THEN /\ httpResp' = NoResponse
                           /\ callRet' = Return(NilResp, ReaderDoError(doErr))
                      ELSE /\ httpResp' = Response(st, raw)
                           /\ callRet' =
                                IF st # StatusOK
                                THEN Return(NilResp, ReaderAPIError(st, raw))
                                ELSE IF rdErr # NilErr
                                THEN Return(NilResp,
                                            WrapErr("read response body", rdErr))
                                ELSE parseReaderResponse(raw, r.JSONResponse)
    /\ UNCHANGED <<cfg, call, running, streamVars, codecVars>>

\* Client.Search
Search ==
    /\ call.op = "Search"
    /\ ~callRet.returned
    /\ \E pre \in PreSendErrs(call.op) :
         IF validateSearch(call.req) # NilErr
         THEN /\ callRet' = Return(NilResp, validateSearch(call.req))
              /\ UNCHANGED <<httpReq, httpResp>>
         ELSE IF pre # NilErr
         THEN /\ callRet' = Return(NilResp, ReaderPreSendError(pre))
              /\ UNCHANGED <<httpReq, httpResp>>
         ELSE LET r == ClientEUCompliance(cfg, call.req)
                  h == HeaderSet(EmptyHeader, "Content-Type", "application/json")
              IN /\ httpReq' = NewRequest(buildSearchURL(r), setSearchHeaders(cfg, h, r), r)
                 /\ \E doErr \in {NilErr, TransportErr}, st \in Statuses,
                       raw \in RespBodies, rdErr \in {NilErr, ReadErr} :
                      IF doErr # NilErr
                      THEN /\ httpResp' = NoResponse
                           /\ callRet' = Return(NilResp, ReaderDoError(doErr))
                      ELSE /\ httpResp' = Response(st, raw)
                           /\ callRet' =
                                IF st # StatusOK
                                THEN Return(NilResp, ReaderAPIError(st, raw))
                                ELSE IF rdErr # NilErr
                                THEN Return(NilResp,
                                            WrapErr("read response body", rdErr))
                                ELSE parseSearchResponse(raw, r.JSONResponse)
    /\ UNCHANGED <<cfg, call, running, streamVars, codecVars>>

\* the bodies a streaming call made through an endpoint call may read
CallBodies == SeqsUpTo(WireLines, MaxCallLines)

\* Client.VLMStream up to the call of doStream, which DoRequest, ScanLine and
\* ScanEnd carry on; the error it returns is the one doStream returns
VLMStream ==
    /\ call.op = "VLMStream"
    /\ ~httpReq.sent
    /\ pc = "idle"
    /\ op' = "VLMStream"
    /\ \E pre \in PreSendErrs(call.op), b \in CallBodies :
         IF pre # NilErr
         THEN /\ pc' = "failed"
              /\ result' = PreSendError(pre)
              /\ UNCHANGED <<httpReq, body>>
         ELSE /\ httpReq' = NewRequest(VLMURL, EndpointHeader(cfg, "text/event-stream"),
                                       MarshalChatRequest(
                                           ChatBody(call.req, VLMModelDefault, TRUE)))
              /\ pc' = "init"
              /\ body' = b
              /\ UNCHANGED result
    /\ UNCHANGED <<status, pos, delivered, cbRets, readErr>>
    /\ UNCHANGED <<cfg, call, running, httpResp, callRet, codecVars>>

\* Client.DeepSearchStream up to the call of doStream
DeepSearchStream ==
    /\ call.op = "DeepSearchStream"
    /\ ~httpReq.sent
    /\ pc = "idle"
    /\ op' = "DeepSearchStream"
    /\ \E pre \in PreSendErrs(call.op), b \in CallBodies :
         IF pre # NilErr
         THEN /\ pc' = "failed"
              /\ result' = PreSendError(pre)
              /\ UNCHANGED <<httpReq, body>>
         ELSE /\ httpReq' = NewRequest(DeepSearchURL, EndpointHeader(cfg, "text/event-stream"),
                                       MarshalChatRequest(
                                           ChatBody(call.req, DeepSearchModelDefault, TRUE)))
              /\ pc' = "init"
              /\ body' = b
              /\ UNCHANGED result
    /\ UNCHANGED <<status, pos, delivered, cbRets, readErr>>
    /\ UNCHANGED <<cfg, call, running, httpResp, callRet, codecVars>>

CallInit ==
    /\ StreamIdle
    /\ CodecIdle
    /\ \E cl \in Clients : cfg = cl.cfg
    /\ call \in Calls
    /\ httpReq = NoRequest
    /\ httpResp = NoResponse
    /\ callRet = NotReturned
    /\ running = NoneRunning

CallNext ==
    \/ Classify
    \/ Rerank
    \/ Embeddings
    \/ Segment
    \/ VLM
    \/ DeepSearch
    \/ Reader
    \/ Search
    \/ VLMStream
    \/ DeepSearchStream
    \/ DoRequest
    \/ ScanLine
    \/ ScanEnd

CallSpec == CallInit /\ [][CallNext]_vars

----------------------------------------------------------------------------
(* Calls made at the same time on one client.  A call is cut where it reads *)
(* the configuration: once when it prepares its request and once when it   *)
(* builds the headers; between the two, the other goroutine may run.       *)

\* the calls the goroutines make; Reader and Search requests keep their
\* option fields at the zero value
ConcCalls ==
    {[op |-> "Classify", req |-> NoArgs]}
        \cup {[op |-> o, req |-> r] :
                o \in {"VLM", "DeepSearch", "VLMStream", "DeepSearchStream"},
                r \in ChatRequests}
        \cup {[op |-> "Reader", req |-> base @@ ZeroOptions(ReaderHeaderRules)] :
                base \in [URL : {"", "https://example.com"}, EUCompliance : BOOLEAN,
                          JSONResponse : {FALSE}]}
        \cup {[op |-> "Search", req |-> base @@ ZeroOptions(SearchHeaderRules)] :
                base \in [Query : {"", "jina"}, EUCompliance : BOOLEAN,
                          JSONResponse : {FALSE}]}

\* the validation at the head of a call, NilErr where there is none
validate(o, r) ==
    CASE o = "Reader" -> validateReader(r)
      [] o = "Search" -> validateSearch(r)
      [] OTHER -> NilErr

\* a preparation that records the region of the request in the client
ForceRequest_WritesConfig(c, o, r) ==
    [cfg |-> IF o \in ReaderOps
             THEN [c EXCEPT !.EUCompliance = c.EUCompliance \/ r.EUCompliance]
             ELSE c,
     req |-> CASE o \in ReaderOps -> ClientEUCompliance(c, r)
               [] o \in {"VLM", "VLMStream"} -> ChatBody(r, VLMModelDefault, o \in StreamOps)
               [] o \in {"DeepSearch", "DeepSearchStream"} ->
                    ChatBody(r, DeepSearchModelDefault, o \in StreamOps)
               [] OTHER -> r]

\* The assignments a call makes before it marshals its request, with the
\* configuration and the request as they are afterwards: Reader and Search
\* force EUCompliance, the chat operations set Model and Stream.  req is the
\* parameter of the call, a copy of the caller's value; the configuration is
\* only read.
ForceRequest(c, o, r) ==
    [cfg |-> c,
     req |-> CASE o \in ReaderOps -> ClientEUCompliance(c, r)
               [] o \in {"VLM", "VLMStream"} -> ChatBody(r, VLMModelDefault, o \in StreamOps)
               [] o \in {"DeepSearch", "DeepSearchStream"} ->
                    ChatBody(r, DeepSearchModelDefault, o \in StreamOps)
               [] OTHER -> r]

\* the request the operation hands to client.Do
BuildRequest(c, o, r) ==
    CASE o = "Reader" ->
            NewRequest(buildReaderURL(r),
                       setReaderHeaders(c, HeaderSet(EmptyHeader, "Content-Type",
                                                     "application/json"), r), r)
      [] o = "Search" ->
            NewRequest(buildSearchURL(r),
                       setSearchHeaders(c, HeaderSet(EmptyHeader, "Content-Type",
                                                     "application/json"), r), r)
      [] o = "Classify" ->
            NewRequest(ClassifyURL, EndpointHeader(c, "application/json"), r)
      [] o \in {"VLM", "DeepSearch"} ->
            NewRequest(IF o = "VLM" THEN VLMURL ELSE DeepSearchURL,
                       EndpointHeader(c, "application/json"), MarshalChatRequest(r))
      [] o \in StreamOps ->
            NewRequest(IF o = "VLMStream" THEN VLMURL ELSE DeepSearchURL,
                       EndpointHeader(c, "text/event-stream"), MarshalChatRequest(r))

\* The head of the call of goroutine g: validation, then the assignments to
\* the request.
ConcPrepare(g) ==
    /\ running[g].pc = "called"
    /\ IF validate(running[g].op, running[g].req) # NilErr
       THEN /\ running' = [running EXCEPT ![g].pc = "returned"]
            /\ UNCHANGED cfg
       ELSE LET f == ForceRequest(cfg, running[g].op, running[g].req)
            IN /\ cfg' = f.cfg
               /\ running' = [running EXCEPT ![g].req = f.req, ![g].pc = "prepared"]
    /\ UNCHANGED <<call, httpReq, httpResp, callRet, streamVars, codecVars>>

\* The call of goroutine g marshals its request, builds the HTTP request with
\* the headers the configuration gives and hands it to client.Do, or returns
\* the error of json.Marshal or http.NewRequestWithContext.
ConcSend(g) ==
    /\ running[g].pc = "prepared"
    /\ \E pre \in PreSendErrs(running[g].op) :
         IF pre # NilErr
         THEN running' = [running EXCEPT ![g].pc = "returned"]
         ELSE running' = [running EXCEPT
                            ![g].sent = BuildRequest(cfg, running[g].op, running[g].req),
                            ![g].pc = "sent"]
    /\ UNCHANGED <<cfg, call, httpReq, httpResp, callRet, streamVars, codecVars>>

\* The rest of the call of goroutine g: the response is read and the call
\* returns; neither the configuration nor the request is touched.
ConcFinish(g) ==
    /\ running[g].pc = "sent"
    /\ running' = [running EXCEPT ![g].pc = "returned"]
    /\ UNCHANGED <<cfg, call, httpReq, httpResp, callRet, streamVars, codecVars>>

\* After NewClient returned, each goroutine calls one operation with its own
\* request value; the parameter req of the call starts as a copy of it.
ConcInit ==
    /\ StreamIdle
    /\ CodecIdle
    /\ \E cl \in Clients : cfg = cl.cfg
    /\ call = NoCall
    /\ httpReq = NoRequest
    /\ httpResp = NoResponse
    /\ callRet = NotReturned
    /\ running \in [Callers -> {[op |-> c.op, arg |-> c.req, req |-> c.req,
                                  pc |-> "called", sent |-> NoRequest] : c \in ConcCalls}]

ConcNext ==
    \/ \E g \in Callers : ConcPrepare(g)
    \/ \E g \in Callers : ConcSend(g)
    \/ \E g \in Callers : ConcFinish(g)

ConcSpec == ConcInit /\ [][ConcNext]_vars

----------------------------------------------------------------------------
(* Vocabulary of the streaming properties.  These definitions describe the *)
(* wire, not the code: a line is classified by its characters and a payload *)
(* by the table of the chunks it stands for.                               *)

\* the line starts with the six characters of `data: `
IsDataLine(line) ==
    /\ Len(line) >= 6
    /\ line[1] = "d" /\ line[2] = "a" /\ line[3] = "t" /\ line[4] = "a"
    /\ line[5] = ":" /\ line[6] = " "

\* what follows the first six characters
Payload(line) == SubSeq(line, 7, Len(line))

\* the line is exactly `data: [DONE]`
IsDoneLine(line) == line = <<"d", "a", "t", "a", ":", " ", "[", "D", "O", "N", "E", "]">>

\* the payloads that are JSON objects, and the chunk each stands for
PayloadChunk ==
    (<<"{", "a", "}">> :> [ID |-> "a"])
        @@ (<<"{", "b", "}">> :> [ID |-> "b"])
        @@ (<<"{", "}">> :> [ID |-> ""])

\* a `data: ` line carrying a valid chunk
IsChunkLine(line) == IsDataLine(line) /\ Payload(line) \in DOMAIN PayloadChunk

\* a `data: ` line carrying neither the sentinel nor a valid chunk
IsBadLine(line) == IsDataLine(line) /\ ~IsDoneLine(line) /\ ~IsChunkLine(line)

\* number of `data: ` lines among the first n lines of b
CountDataLines(b, n) == Cardinality({i \in 1..n : IsDataLine(b[i])})

\* number of valid chunk lines among the first n lines of b
CountChunkLines(b, n) == Cardinality({i \in 1..n : IsChunkLine(b[i])})

\* the chunks of the valid chunk lines among the first n lines of b, in order
RECURSIVE ChunksOf(_, _)
ChunksOf(b, n) ==
    IF n = 0 THEN <<>>
    ELSE IF IsChunkLine(b[n])
    THEN Append(ChunksOf(b, n - 1), PayloadChunk[Payload(b[n])])
    ELSE ChunksOf(b, n - 1)

\* the position in b of its j-th valid chunk line
ChunkLinePos(b, j) ==
    CHOOSE i \in 1..Len(b) : IsChunkLine(b[i]) /\ CountChunkLines(b, i) = j

\* the first `data: [DONE]` line of b, 0 if there is none
FirstDone(b) ==
    IF \E i \in 1..Len(b) : IsDoneLine(b[i])
    THEN CHOOSE i \in 1..Len(b) :
           IsDoneLine(b[i]) /\ \A k \in 1..(i - 1) : ~IsDoneLine(b[k])
    ELSE 0

\* the first undecodable `data: ` line of b, 0 if there is none
FirstBad(b) ==
    IF \E i \in 1..Len(b) : IsBadLine(b[i])
    THEN CHOOSE i \in 1..Len(b) :
           IsBadLine(b[i]) /\ \A k \in 1..(i - 1) : ~IsBadLine(b[k])
    ELSE 0

AllNil(rets) == \A i \in 1..Len(rets) : rets[i] = NilErr

Finished == pc \in {"done", "failed"}

\* the body is n valid chunk lines followed by `data: [DONE]`
IsChunksThenDone(b) ==
    /\ Len(b) >= 1
    /\ IsDoneLine(b[Len(b)])
    /\ \A i \in 1..(Len(b) - 1) : IsChunkLine(b[i])

\* every `data: ` line of the body carries a valid chunk: no sentinel
NoSentinel(b) == \A i \in 1..Len(b) : IsDataLine(b[i]) => IsChunkLine(b[i])

----------------------------------------------------------------------------
(* Properties of the streaming call *)

\* C1: on a 200 response whose body is n valid chunk lines followed by
\* `data: [DONE]`, the chunks handed to the callback are at every moment the
\* decodings of the first lines, in wire order, and once the call has
\* returned (the callback having returned nil each time and the read not
\* having failed) the callback was invoked exactly n times and the call
\* returned nil.
C1_ChunksThenDone ==
    (status = StatusOK /\ IsChunksThenDone(body)) =>
        /\ Len(delivered) <= Len(body) - 1
        /\ Len(cbRets) = Len(delivered)
        /\ delivered = ChunksOf(body, Len(delivered))
        /\ (Finished /\ AllNil(cbRets) /\ readErr # ReadErr) =>
              /\ pc = "done"
              /\ result = NilErr
              /\ Len(delivered) = Len(body) - 1

C1_Witness ==
    /\ IsChunksThenDone(body)
    /\ Len(body) = 3
    /\ pc = "done"
    /\ result = NilErr
    /\ Len(delivered) = 2
    /\ delivered[1] # delivered[2]

\* C2: on a 200 response whose body ends (end of file) without a
\* `data: [DONE]` line, every `data: ` line carrying a valid chunk, the call
\* returns nil and the callback was invoked once per chunk line.
C2_EndWithoutSentinel ==
    (status = StatusOK /\ NoSentinel(body) /\ readErr = EOFErr) =>
        /\ pc = "done"
        /\ result = NilErr
        /\ pos = Len(body)
        /\ Len(cbRets) = CountChunkLines(body, Len(body))
        /\ delivered = ChunksOf(body, Len(body))

C2_Witness ==
    /\ NoSentinel(body)
    /\ readErr = EOFErr
    /\ pc = "done"
    /\ Len(delivered) >= 2

\* C3: once the first undecodable `data: ` payload (the k-th payload, no
\* sentinel before it) has been read, the call has failed with the decoding
\* error, the callback was invoked exactly k-1 times, and no later line is
\* read.
C3_MalformedChunk ==
    LET p == FirstBad(body)
        d == FirstDone(body)
    IN (p # 0 /\ (d = 0 \/ d > p) /\ pos >= p) =>
          /\ pc = "failed"
          /\ result = UnmarshalChunkErr
          /\ pos = p
          /\ Len(cbRets) = CountDataLines(body, p) - 1
          /\ delivered = ChunksOf(body, p - 1)
          /\ AllNil(cbRets)

C3_Witness ==
    /\ FirstBad(body) = 2
    /\ pos = 2
    /\ Len(body) = 3
    /\ IsChunkLine(body[1])
    /\ IsChunkLine(body[3])
    /\ pc = "failed"
    /\ Len(delivered) = 1

\* C4: when the callback returned an error on its j-th invocation, that was
\* its last invocation, the call has failed with that very error value, and
\* no line after the one that carried the j-th chunk is read.
C4_CallbackError ==
    \A j \in 1..Len(cbRets) :
        cbRets[j] # NilErr =>
            /\ j = Len(cbRets)
            /\ Len(delivered) = j
            /\ pc = "failed"
            /\ result = cbRets[j]
            /\ pos = ChunkLinePos(body, j)

C4_Witness ==
    /\ Len(cbRets) = 2
    /\ cbRets[2] \in UserErrs
    /\ pc = "failed"
    /\ pos < Len(body)
    /\ (IsChunkLine(body[pos + 1]) \/ IsDoneLine(body[pos + 1]))

\* C5: a response status other than 200 makes the call fail with an error
\* carrying the status code, without any callback invocation and without
\* reading a line; a line is read only under status 200.
C5_Non200 ==
    /\ (status # 0 /\ status # StatusOK) =>
          /\ pc = "failed"
          /\ result.kind = "status"
          /\ result.code = status
          /\ cbRets = <<>>
          /\ delivered = <<>>
          /\ pos = 0
          /\ readErr = NilErr
    /\ (pc \in {"reading", "done"} \/ pos > 0) => status = StatusOK

C5_Witness ==
    /\ status = 500
    /\ pc = "failed"
    /\ Len(body) >= 1
    /\ IsChunkLine(body[1])

\* C6: once a `data: [DONE]` line has been read, the call has returned nil,
\* that line is the last one read, and the callback was invoked only for the
\* chunk lines before it.
C6_Sentinel ==
    \A i \in 1..pos :
        IsDoneLine(body[i]) =>
            /\ i = pos
            /\ pc = "done"
            /\ result = NilErr
            /\ Len(cbRets) = CountChunkLines(body, i - 1)
            /\ delivered = ChunksOf(body, i - 1)

C6_Witness ==
    /\ pc = "done"
    /\ pos >= 1
    /\ pos + 1 < Len(body)
    /\ IsDoneLine(body[pos])
    /\ IsChunkLine(body[pos + 1])
    /\ IsBadLine(body[pos + 2])

\* C7: reading a line that does not start with `data: ` changes nothing but
\* the read position (no callback invocation, no error, no termination), and
\* the callback is never invoked more often than `data: ` lines were read.
C7_OtherLinesIgnored ==
    /\ [](Len(cbRets) <= CountDataLines(body, pos))
    /\ [][(pc = "reading" /\ pos' = pos + 1 /\ ~IsDataLine(body[pos + 1])) =>
            UNCHANGED <<pc, result, delivered, cbRets, readErr>>]_vars

C7_Witness ==
    /\ pc = "reading"
    /\ pos = 3
    /\ body[1] = <<>>
    /\ body[2] = <<"d", "a", "t", "a", ":", "{", "a", "}">>
    /\ body[3] = <<":", "k">>
    /\ cbRets = <<>>
    /\ result = NilErr

----------------------------------------------------------------------------
(* Properties of the encoders *)

Encoded == codecOut # NoJSON

\* the JSON value j is the bare string s
IsBareString(j, s) == j.type = "string" /\ j.val = s

\* the JSON value j is the object {key: s} with this one key
IsSingleKeyObject(j, key, s) ==
    /\ j.type = "object"
    /\ Keys(j) = {key}
    /\ j.val[key].type = "string"
    /\ j.val[key].val = s

\* C8: an EmbeddingInput or ClassificationInput whose Image and PDF are
\* empty encodes as the bare JSON string equal to Text, the empty string
\* included.
C8_TextOnlyBareString ==
    /\ (Encoded /\ codecIn.kind = "EmbeddingInput"
          /\ codecIn.val.Image = "" /\ codecIn.val.PDF = "") =>
            IsBareString(codecOut, codecIn.val.Text)
    /\ (Encoded /\ codecIn.kind = "ClassificationInput" /\ codecIn.val.Image = "") =>
            IsBareString(codecOut, codecIn.val.Text)

C8_Witness ==
    /\ Encoded
    /\ codecIn.kind = "EmbeddingInput"
    /\ codecIn.val = [Text |-> "", Image |-> "", PDF |-> ""]
    /\ codecOut.type = "string"

\* C9: an EmbeddingInput or ClassificationInput with a non-empty Image
\* encodes as {"image": Image} whatever the other fields hold, and an
\* EmbeddingInput with an empty Image and a non-empty PDF as {"pdf": PDF}.
C9_VariantPrecedence ==
    /\ (Encoded /\ codecIn.kind \in {"EmbeddingInput", "ClassificationInput"}
          /\ codecIn.val.Image # "") =>
            IsSingleKeyObject(codecOut, "image", codecIn.val.Image)
    /\ (Encoded /\ codecIn.kind = "EmbeddingInput"
          /\ codecIn.val.Image = "" /\ codecIn.val.PDF # "") =>
            IsSingleKeyObject(codecOut, "pdf", codecIn.val.PDF)

C9_Witness ==
    /\ Encoded
    /\ codecIn.kind = "EmbeddingInput"
    /\ codecIn.val = [Text |-> "t1", Image |-> "i2", PDF |-> "p1"]
    /\ Keys(codecOut) = {"image"}

\* the structured inputs of the encoded rerank request with their encodings:
\* the query when QueryInput is not nil, and the elements of DocumentsInput
RerankStructured ==
    LET r == codecIn.val
        n == Len(r.DocumentsInput.elems)
    IN (IF r.QueryInput.nil THEN {}
        ELSE {[input |-> [Text |-> r.QueryInput.Text, Image |-> r.QueryInput.Image],
               json |-> codecOut.val["query"]]})
       \cup {[input |-> r.DocumentsInput.elems[i],
              json |-> codecOut.val["documents"].val[i]] : i \in 1..n}

\* C10, as claimed: a rerank structured input follows the polymorphic rule:
\* bare string when Image is empty, {"image": Image} when Image is not empty.
C10_RerankPolymorphic ==
    (Encoded /\ codecIn.kind = "RerankRequest") =>
        \A x \in RerankStructured :
            IF x.input.Image = ""
            THEN IsBareString(x.json, x.input.Text)
            ELSE IsSingleKeyObject(x.json, "image", x.input.Image)

\* C10, amended: a rerank structured input always encodes as a JSON object,
\* which has the key `text` exactly when Text is not empty and the key
\* `image` exactly when Image is not empty, each with the field's value.
C10_RerankObject ==
    (Encoded /\ codecIn.kind = "RerankRequest") =>
        \A x \in RerankStructured :
            /\ x.json.type = "object"
            /\ Keys(x.json) = (IF x.input.Text # "" THEN {"text"} ELSE {})
                                \cup (IF x.input.Image # "" THEN {"image"} ELSE {})
            /\ x.input.Text # "" => IsBareString(x.json.val["text"], x.input.Text)
            /\ x.input.Image # "" => IsBareString(x.json.val["image"], x.input.Image)

C10_Witness ==
    /\ Encoded
    /\ codecIn.kind = "RerankRequest"
    /\ ~codecIn.val.QueryInput.nil
    /\ codecIn.val.QueryInput.Text # ""
    /\ codecIn.val.QueryInput.Image # ""
    /\ Keys(codecOut.val["query"]) = {"text", "image"}
    /\ Len(codecIn.val.DocumentsInput.elems) = 2
    /\ codecIn.val.DocumentsInput.elems[1] = [Text |-> "t1", Image |-> ""]
    /\ Keys(codecOut.val["documents"].val[1]) = {"text"}

\* the JSON value is [s, [n1..nk]] with s a string and every n a number
IsPairOfNumbers(j) ==
    /\ j.type = "array"
    /\ Len(j.val) = 2
    /\ j.val[1].type = "string"
    /\ j.val[2].type = "array"
    /\ \A i \in 1..Len(j.val[2].val) : j.val[2].val[i].type = "number"

\* the number is written without a fraction
IsWhole(num) == "tenths" \notin DOMAIN num

\* the JSON value is [s, [i1..in]] with s a string and every i an integer
IsPairOfIntegers(j) ==
    /\ IsPairOfNumbers(j)
    /\ \A i \in 1..Len(j.val[2].val) : IsWhole(j.val[2].val[i])

TokenDecoded == codecIn.kind = "Token" /\ codecOut # NoJSON

\* C11, as claimed: decoding succeeds exactly on [s, [i1..in]] with s a
\* string and every i an integer, and then yields Text = s and IDs = i1..in.
C11_TokenIntegersOnly ==
    TokenDecoded =>
        /\ (codecOut.val.err = NilErr) <=> IsPairOfIntegers(codecIn.val)
        /\ codecOut.val.err = NilErr =>
              /\ codecOut.val.Text = codecIn.val.val[1].val
              /\ Len(codecOut.val.IDs) = Len(codecIn.val.val[2].val)
              /\ \A i \in 1..Len(codecOut.val.IDs) :
                    codecOut.val.IDs[i] = codecIn.val.val[2].val[i].val

\* C11, amended: decoding succeeds exactly on [s, [n1..nk]] with s a string
\* and every n a JSON number, and then yields Text = s and one id per number,
\* in order: the number itself when it is an integer, its whole part when it
\* has a fraction.  Every other value fails with an error.
C11_TokenPairOfNumbers ==
    TokenDecoded =>
        /\ (codecOut.val.err = NilErr) <=> IsPairOfNumbers(codecIn.val)
        /\ codecOut.val.err = NilErr =>
              /\ codecOut.val.Text = codecIn.val.val[1].val
              /\ Len(codecOut.val.IDs) = Len(codecIn.val.val[2].val)
              /\ \A i \in 1..Len(codecOut.val.IDs) :
                    codecOut.val.IDs[i] = codecIn.val.val[2].val[i].val

C11_Witness ==
    /\ TokenDecoded
    /\ codecIn.val = JArray(<<JString("hello"), JArray(<<JNumber(7), JDecimal(1, 5)>>)>>)
    /\ codecOut.val = [err |-> NilErr, Text |-> "hello", IDs |-> <<7, 1>>]

RerankEncoded == codecIn.kind = "RerankRequest" /\ codecOut # NoJSON

\* the JSON value is the array of the encodings of the structured inputs l
IsStructuredList(j, l) ==
    /\ j.type = "array"
    /\ Len(j.val) = Len(l)
    /\ \A i \in 1..Len(l) :
          /\ j.val[i].type = "object"
          /\ Keys(j.val[i]) = (IF l[i].Text # "" THEN {"text"} ELSE {})
                                \cup (IF l[i].Image # "" THEN {"image"} ELSE {})
          /\ l[i].Text # "" => IsBareString(j.val[i].val["text"], l[i].Text)
          /\ l[i].Image # "" => IsBareString(j.val[i].val["image"], l[i].Image)

\* the JSON value is the encoding of the flat list sl of strings
IsFlatList(j, sl) ==
    IF sl.nil THEN j.type = "null"
    ELSE /\ j.type = "array"
         /\ Len(j.val) = Len(sl.elems)
         /\ \A i \in 1..Len(sl.elems) : IsBareString(j.val[i], sl.elems[i])

\* C12: the `documents` field of an encoded rerank request is the encoding
\* of DocumentsInput when DocumentsInput has at least one element, whatever
\* Documents holds, and the flat Documents list when DocumentsInput is nil
\* or empty.
C12_DocumentsPrecedence ==
    RerankEncoded =>
        LET r == codecIn.val
            docs == codecOut.val["documents"]
        IN IF Len(r.DocumentsInput.elems) >= 1
           THEN IsStructuredList(docs, r.DocumentsInput.elems)
           ELSE IsFlatList(docs, r.Documents)

C12_Witness ==
    /\ RerankEncoded
    /\ Len(codecIn.val.DocumentsInput.elems) = 2
    /\ Len(codecIn.val.Documents.elems) = 1
    /\ codecIn.val.Documents.elems[1] = "d1"
    /\ codecIn.val.DocumentsInput.elems[1].Image = "i1"
    /\ Len(codecOut.val["documents"].val) = 2
    /\ codecOut.val["documents"].val[1].type = "object"

\* C13, as claimed: with a QueryInput that is present but empty and a
\* non-empty Query, the `query` field is the Query string.
C13_EmptyQueryInputIgnored ==
    (RerankEncoded /\ ~codecIn.val.QueryInput.nil
       /\ codecIn.val.QueryInput.Text = "" /\ codecIn.val.QueryInput.Image = ""
       /\ codecIn.val.Query # "") =>
        IsBareString(codecOut.val["query"], codecIn.val.Query)

\* C13, amended: presence of the structured query is judged by the pointer:
\* with a QueryInput that is not nil, even an empty one, the `query` field is
\* the encoding of QueryInput (the empty object for an empty one) and Query
\* is not used; with a nil QueryInput the `query` field is the Query string.
C13_QueryInputByPresence ==
    RerankEncoded =>
        LET r == codecIn.val
            q == codecOut.val["query"]
        IN IF r.QueryInput.nil
           THEN IsBareString(q, r.Query)
           ELSE /\ q.type = "object"
                /\ Keys(q) = (IF r.QueryInput.Text # "" THEN {"text"} ELSE {})
                               \cup (IF r.QueryInput.Image # "" THEN {"image"} ELSE {})

C13_Witness ==
    /\ RerankEncoded
    /\ ~codecIn.val.QueryInput.nil
    /\ codecIn.val.QueryInput.Text = ""
    /\ codecIn.val.QueryInput.Image = ""
    /\ codecIn.val.Query = "q1"
    /\ codecOut.val["query"].type = "object"
    /\ Keys(codecOut.val["query"]) = {}

----------------------------------------------------------------------------
(* Vocabulary of the endpoint-call properties: the wire and the caller's   *)
(* view, written without the operators of the calls.                       *)

\* a response arrived and its status is not 200
GotNon200 == httpResp.got /\ httpResp.status # 200

\* a response arrived with status 200
Got200 == httpResp.got /\ httpResp.status = 200

\* What Go prints for the mapping a body decodes to, and "" for a body that
\* does not decode to one.  The decoder reads one JSON value and leaves the
\* rest of the body alone, and JSON null decodes to the mapping with no key.
PrintedMapping(raw) ==
    CASE raw = "{\"detail\":\"bad model\"}" -> "map[detail:bad model]"
      [] raw = "{\"detail\":\"bad model\"} trailing" -> "map[detail:bad model]"
      [] raw = "{\"code\":200}" -> "map[code:200]"
      [] raw = "{\"code\":\"x\"}" -> "map[code:x]"
      [] raw = "null" -> "map[]"
      [] OTHER -> ""

\* the message of the error carries the status code of the response
CarriesStatus(err) == err.code = httpResp.status

\* C14: for Classify, Rerank, Embeddings, Segment, VLM and DeepSearch a
\* response with a status other than 200 makes the call return (nil, error);
\* when the body decodes as a mapping the message embeds the decoded mapping,
\* when it does not the message carries only the status code; the decoding
\* of the success path is not attempted.
C14_RemoteError ==
    (call.op \in JSONOps /\ callRet.returned /\ GotNon200) =>
        /\ callRet.resp.nil
        /\ callRet.err # NilErr
        /\ callRet.err.kind # "failed to decode response"
        /\ IF PrintedMapping(httpResp.body) # ""
           THEN /\ callRet.err.kind = "API error: %v"
                /\ callRet.err.id = PrintedMapping(httpResp.body)
           ELSE /\ callRet.err.kind = "API error with status code: %d"
                /\ CarriesStatus(callRet.err)
                /\ callRet.err.id = ""

C14_Witness ==
    /\ call.op = "Rerank"
    /\ callRet.returned
    /\ httpResp = [got |-> TRUE, status |-> 401, body |-> "{\"detail\":\"bad model\"}"]
    /\ callRet.resp.nil
    /\ callRet.err.id = "map[detail:bad model]"

\* C15, as claimed: for Reader and Search a response with a status other
\* than 200 is reported like the error of the other operations: the decoded
\* mapping when the body is JSON, else just the status code, and no raw body
\* text.
C15_ReaderErrorDecoded ==
    (call.op \in ReaderOps /\ callRet.returned /\ GotNon200) =>
        /\ callRet.resp.nil
        /\ IF PrintedMapping(httpResp.body) # ""
           THEN callRet.err.id = PrintedMapping(httpResp.body)
           ELSE CarriesStatus(callRet.err) /\ callRet.err.id = ""

\* C15, amended: for Reader and Search a response with a status other than
\* 200 makes the call return (nil, error), and the message always carries
\* both the status code and the text of the body as it was received; the
\* body is not decoded, whether it is JSON or not.
C15_ReaderErrorRawBody ==
    (call.op \in ReaderOps /\ callRet.returned /\ GotNon200) =>
        /\ callRet.resp.nil
        /\ callRet.err.kind = "API error: status %d, body: %s"
        /\ CarriesStatus(callRet.err)
        /\ callRet.err.id = httpResp.body

C15_Witness ==
    /\ call.op = "Search"
    /\ callRet.returned
    /\ httpResp = [got |-> TRUE, status |-> 500, body |-> "{\"detail\":\"bad model\"}"]
    /\ callRet.err.code = 500
    /\ callRet.err.id = "{\"detail\":\"bad model\"}"

\* the body is one JSON value that the structured response can hold
IsStructuredBody(raw) == raw \in {"{\"detail\":\"bad model\"}", "{\"code\":200}", "null"}

\* C16: a successful Reader or Search call returns the form its request's
\* JSONResponse flag selects: flag true gives Structured non-nil and Text
\* empty, flag false gives Text equal to the whole body and Structured nil,
\* even when the body is valid JSON; with flag true a body that is not valid
\* JSON is an error, never raw text.
C16_ResponseDuality ==
    (call.op \in ReaderOps /\ callRet.returned) =>
        /\ callRet.err = NilErr =>
              /\ Got200
              /\ ~callRet.resp.nil
              /\ IF call.req.JSONResponse
                 THEN ~callRet.resp.Structured.nil /\ callRet.resp.Text = ""
                 ELSE /\ callRet.resp.Structured.nil
                      /\ callRet.resp.Text = httpResp.body
        /\ (Got200 /\ call.req.JSONResponse /\ ~IsStructuredBody(httpResp.body)) =>
              callRet.resp.nil /\ callRet.err # NilErr

C16_Witness ==
    /\ call.op = "Reader"
    /\ callRet.returned
    /\ callRet.err = NilErr
    /\ ~call.req.JSONResponse
    /\ httpResp.body = "{\"code\":200}"
    /\ callRet.resp.Text = "{\"code\":200}"
    /\ callRet.resp.Structured.nil

\* C17: a Reader or Search request goes to the EU host exactly when the
\* client was built WithEUCompliance or the call's EUCompliance is true.
C17_EUHost ==
    (call.op \in ReaderOps /\ httpReq.sent) =>
        LET eu == cfg.EUCompliance \/ call.req.EUCompliance
        IN IF call.op = "Reader"
           THEN httpReq.url = (IF eu THEN "https://eu.r.jina.ai/" ELSE "https://r.jina.ai/")
           ELSE httpReq.url = (IF eu THEN "https://eu.s.jina.ai/" ELSE "https://s.jina.ai/")

C17_Witness ==
    /\ call.op = "Reader"
    /\ cfg.EUCompliance
    /\ ~call.req.EUCompliance
    /\ httpReq.sent
    /\ httpReq.url = "https://eu.r.jina.ai/"

\* the one base URL of an operation without a regional variant
FixedURLOf(o) ==
    CASE o = "Classify" -> "https://api.jina.ai/v1/classify"
      [] o = "Rerank" -> "https://api.jina.ai/v1/rerank"
      [] o = "Embeddings" -> "https://api.jina.ai/v1/embeddings"
      [] o = "Segment" -> "https://segment.jina.ai/"
      [] o \in {"VLM", "VLMStream"} ->
            "https://api-beta-vlm.jina.ai/v1/chat/completions"
      [] o \in {"DeepSearch", "DeepSearchStream"} ->
            "https://deepsearch.jina.ai/v1/chat/completions"

\* the default (non-EU) base URLs of the ten operations
DefaultURLs ==
    {FixedURLOf(o) : o \in JSONOps \cup StreamOps}
        \cup {"https://r.jina.ai/", "https://s.jina.ai/"}

\* C18, as claimed: a client built WithEUCompliance sends every endpoint
\* call to a regional host and never to the default base URL.
C18_RegionalEverywhere ==
    (cfg.EUCompliance /\ httpReq.sent) => httpReq.url \notin DefaultURLs

\* C18, amended: the client-level regional setting is applied to Reader and
\* Search calls only: for a client built WithEUCompliance these two are sent
\* to the EU host and never to the default one.  Each of the other eight
\* operations is sent to its one fixed base URL whatever the setting.
C18_RegionalReaderSearchOnly ==
    httpReq.sent =>
        IF call.op \in ReaderOps
        THEN cfg.EUCompliance =>
                httpReq.url = (IF call.op = "Reader" THEN "https://eu.r.jina.ai/"
                               ELSE "https://eu.s.jina.ai/")
        ELSE httpReq.url = FixedURLOf(call.op)

C18_Witness ==
    /\ cfg.EUCompliance
    /\ call.op = "Embeddings"
    /\ httpReq.sent
    /\ httpReq.url = "https://api.jina.ai/v1/embeddings"

\* C19: every request carries Authorization: Bearer <key> exactly when the
\* key of the client is not empty; with an empty key there is no
\* Authorization field.
C19_BearerIffKey ==
    httpReq.sent =>
        /\ ("Authorization" \in DOMAIN httpReq.header) <=> (cfg.APIKey # "")
        /\ "Authorization" \in DOMAIN httpReq.header =>
              httpReq.header["Authorization"] = <<"Bearer " \o cfg.APIKey>>

\* a JSON response was requested by the call
WantsJSON ==
    \/ call.op \in JSONOps
    \/ call.op \in ReaderOps /\ call.req.JSONResponse

----------------------------------------------------------------------------
(* Properties of the streaming call: a failing read *)

----------------------------------------------------------------------------
(* Properties of the constructor *)

ClientBuilt == codecIn.kind = "Options" /\ codecOut # NoJSON

\* the positions of the options of the given name
PositionsOf(options, name) == {i \in 1..Len(options) : options[i].opt = name}

\* C30: NewClient applies its options in order to the default configuration:
\* APIKey is the argument of the last WithAPIKey (empty without one) and
\* EUCompliance is true exactly when the options hold a WithEUCompliance,
\* wherever it stands.
C30_OptionsInOrder ==
    ClientBuilt =>
        LET options == codecIn.val
            keys == PositionsOf(options, "WithAPIKey")
            last == CHOOSE i \in keys : \A k \in keys : k <= i
        IN /\ codecOut.val.cfg.APIKey = (IF keys = {} THEN "" ELSE options[last].apiKey)
           /\ codecOut.val.cfg.EUCompliance
                <=> PositionsOf(options, "WithEUCompliance") # {}

C30_Witness ==
    /\ ClientBuilt
    /\ Len(codecIn.val) = 3
    /\ codecIn.val[1] = [opt |-> "WithEUCompliance", apiKey |-> ""]
    /\ codecIn.val[2] = [opt |-> "WithAPIKey", apiKey |-> "k1"]
    /\ codecIn.val[3] = [opt |-> "WithAPIKey", apiKey |-> "k2"]
    /\ codecOut.val.cfg = [APIKey |-> "k2", EUCompliance |-> TRUE]

----------------------------------------------------------------------------
(* Properties of the VLM message content *)

ContentDecoded == codecIn.kind = "ContentJSON" /\ codecOut # NoJSON

\* a JSON value that a string field takes
TakenAsString(j) == j.type \in {"string", "null"}

\* the member k of the object j, if present, satisfies Taken
MemberTaken(j, k, Taken(_)) == k \in DOMAIN j.val => Taken(j.val[k])

\* a JSON value that an image field takes
TakenAsImage(j) ==
    \/ j.type = "null"
    \/ j.type = "object" /\ MemberTaken(j, "url", TakenAsString)

\* a JSON object whose members fit the fields of a part
IsPartObject(j) ==
    /\ j.type = "object"
    /\ MemberTaken(j, "type", TakenAsString)
    /\ MemberTaken(j, "text", TakenAsString)
    /\ MemberTaken(j, "image_url", TakenAsImage)

\* a JSON array whose elements all satisfy Elem
IsArrayOf(j, Elem(_)) ==
    j.type = "array" /\ \A i \in 1..Len(j.val) : Elem(j.val[i])

\* a part object or null
IsPartOrNull(j) == j.type = "null" \/ IsPartObject(j)

\* C26, as claimed: a JSON string populates Text, a JSON array of part
\* objects populates Parts, and every other JSON value (number, boolean,
\* object, null, array with an element that is not a part object) fails.
C26_StringOrPartsOnly ==
    ContentDecoded =>
        /\ (codecOut.val.err = NilErr)
              <=> (codecIn.val.type = "string" \/ IsArrayOf(codecIn.val, IsPartObject))
        /\ (codecOut.val.err = NilErr /\ codecIn.val.type = "string") =>
              codecOut.val.c.Text = codecIn.val.val
        /\ (codecOut.val.err = NilErr /\ codecIn.val.type = "array") =>
              Len(codecOut.val.c.Parts.elems) = Len(codecIn.val.val)

\* C26, amended: a JSON string populates Text and a JSON array populates
\* Parts with one part per element, an element being a part object or null
\* (null gives the zero part); JSON null is accepted as well and yields the
\* empty content without an error.  A number, a boolean, an object, an array
\* with any other element and bytes that are not JSON fail.
C26_StringPartsOrNull ==
    ContentDecoded =>
        /\ (codecOut.val.err = NilErr)
              <=> \/ codecIn.val.type \in {"string", "null"}
                  \/ IsArrayOf(codecIn.val, IsPartOrNull)
        /\ (codecOut.val.err = NilErr /\ codecIn.val.type = "string") =>
              /\ codecOut.val.c.Text = codecIn.val.val
              /\ Len(codecOut.val.c.Parts.elems) = 0
        /\ (codecOut.val.err = NilErr /\ codecIn.val.type = "null") =>
              /\ codecOut.val.c.Text = <<>>
              /\ Len(codecOut.val.c.Parts.elems) = 0
        /\ (codecOut.val.err = NilErr /\ codecIn.val.type = "array") =>
              /\ codecOut.val.c.Text = <<>>
              /\ Len(codecOut.val.c.Parts.elems) = Len(codecIn.val.val)
              /\ \A i \in 1..Len(codecIn.val.val) :
                    codecIn.val.val[i].type = "null" =>
                        codecOut.val.c.Parts.elems[i]
                            = [Type |-> <<>>, Text |-> <<>>,
                               ImageURL |-> [nil |-> TRUE, URL |-> <<>>]]

C26_Witness ==
    /\ ContentDecoded
    /\ codecIn.val.type = "null"
    /\ codecOut.val.err = NilErr
    /\ codecOut.val.c.Text = <<>>
    /\ Len(codecOut.val.c.Parts.elems) = 0

ContentEncoded ==
    codecIn.kind = "VLMMessageContent" /\ codecOut.type \in {"string", "array"}

ContentRoundTripped ==
    codecIn.kind = "VLMMessageContent" /\ codecOut.type = "content"

\* exactly one variant is populated: no part and any text, or parts and no text
OneVariant(c) == Len(c.Parts.elems) = 0 \/ c.Text = <<>>

\* the text holds no byte that is not valid UTF-8
ValidText(t) == \A i \in 1..Len(t) : t[i] # "0xFF"

\* every string of the content is valid UTF-8
ValidContent(c) ==
    /\ ValidText(c.Text)
    /\ \A i \in 1..Len(c.Parts.elems) :
          /\ ValidText(c.Parts.elems[i].Type)
          /\ ValidText(c.Parts.elems[i].Text)
          /\ ValidText(c.Parts.elems[i].ImageURL.URL)

\* the same text and the same parts in the same order
SameContent(a, b) ==
    /\ a.Text = b.Text
    /\ Len(a.Parts.elems) = Len(b.Parts.elems)
    /\ \A i \in 1..Len(a.Parts.elems) : a.Parts.elems[i] = b.Parts.elems[i]

\* the encoding is the bare string without parts and the array with parts
EncodingShape(c, j) ==
    IF Len(c.Parts.elems) = 0
    THEN j.type = "string"
    ELSE j.type = "array" /\ Len(j.val) = Len(c.Parts.elems)

\* C27, as claimed: every content with exactly one populated variant decodes
\* from its encoding to an equal value; the encoding is the bare string when
\* Parts is empty and the parts array when it is not.
C27_RoundTrip ==
    /\ ContentEncoded => EncodingShape(codecIn.val, codecOut)
    /\ (ContentRoundTripped /\ OneVariant(codecIn.val)) =>
          /\ codecOut.val.err = NilErr
          /\ SameContent(codecOut.val.c, codecIn.val)

\* C27, amended: every content with exactly one populated variant whose
\* strings are valid UTF-8 decodes from its encoding to an equal value (a
\* byte that is not valid UTF-8 is encoded as U+FFFD and is not restored);
\* the encoding is the bare string when Parts is empty and the parts array
\* when it is not, Parts taking precedence over a Text set with it.
C27_RoundTripValidUTF8 ==
    /\ ContentEncoded => EncodingShape(codecIn.val, codecOut)
    /\ ContentRoundTripped =>
          /\ codecOut.val.err = NilErr
          /\ EncodingShape(codecIn.val, codecOut.json)
          /\ (OneVariant(codecIn.val) /\ ValidContent(codecIn.val)) =>
                SameContent(codecOut.val.c, codecIn.val)
          /\ ~OneVariant(codecIn.val) => codecOut.val.c.Text = <<>>

C27_Witness ==
    /\ ContentRoundTripped
    /\ codecIn.val.Text = <<>>
    /\ Len(codecIn.val.Parts.elems) = 2
    /\ ~codecIn.val.Parts.elems[1].ImageURL.nil
    /\ codecIn.val.Parts.elems[2].Text = <<"a">>
    /\ codecOut.json.type = "array"
    /\ codecOut.val.c.Parts.elems = codecIn.val.Parts.elems

\* ---------------------------------------------------------------------
\* C21: the option headers of Reader and Search
\* ---------------------------------------------------------------------

\* the header rules of the operation of the call
RulesOfCall ==
    IF call.op = "Reader" THEN ReaderHeaderRules ELSE SearchHeaderRules

\* the field holds something else than the zero value of its type
NonZero(rule) ==
    call.req[rule.field] # ZeroOf(rule.kind)

\* the field holds a value the code sends: a non-empty string, true, or an
\* integer above 0
Sendable(rule) ==
    IF rule.kind = "int" THEN call.req[rule.field] > 0 ELSE NonZero(rule)

\* the one value of the designated header of the rule
SentValue(rule) ==
    CASE rule.kind = "string" -> call.req[rule.field]
      [] rule.kind = "bool" -> rule.word
      [] rule.kind = "int" -> ToString(call.req[rule.field])

\* no value of any header of the request is a false or zero value
NoZeroValueSent ==
    \A n \in DOMAIN httpReq.header : \A k \in 1..Len(httpReq.header[n]) :
        httpReq.header[n][k] \notin {"", "0", "false"}

\* C21, as claimed: in a Reader or Search request the designated header of an
\* option is present exactly when the field is not at its zero value (a
\* non-empty string, true, an integer different from 0, negative ones
\* included), and no header carries a false or zero value.
C21_HeaderIffNonZero ==
    (httpReq.sent /\ call.op \in ReaderOps) =>
        /\ \A i \in 1..Len(RulesOfCall) :
              RulesOfCall[i].header \in DOMAIN httpReq.header <=> NonZero(RulesOfCall[i])
        /\ NoZeroValueSent

\* C21, amended: in a Reader or Search request the designated header of an
\* option is present exactly when the field is a non-empty string, true, or an
\* integer greater than 0 (a negative Timeout, TokenBudget or DNT sends no
\* header), it then carries the one value of the field, and no header carries
\* a false or zero value.
C21_HeaderIffSendable ==
    (httpReq.sent /\ call.op \in ReaderOps) =>
        /\ \A i \in 1..Len(RulesOfCall) :
              IF Sendable(RulesOfCall[i])
              THEN /\ RulesOfCall[i].header \in DOMAIN httpReq.header
                   /\ httpReq.header[RulesOfCall[i].header] = <<SentValue(RulesOfCall[i])>>
              ELSE RulesOfCall[i].header \notin DOMAIN httpReq.header
        /\ NoZeroValueSent

\* a Reader request with a negative Timeout went out without X-Timeout
C21_Witness ==
    /\ httpReq.sent
    /\ call.op = "Reader"
    /\ call.req.Timeout = -1
    /\ "X-Timeout" \notin DOMAIN httpReq.header

\* ---------------------------------------------------------------------
\* C22: Reader and Search validate before anything else
\* ---------------------------------------------------------------------

\* the call is a Reader call without URL or a Search call without Query
MissingTarget ==
    \/ call.op = "Reader" /\ call.req.URL = ""
    \/ call.op = "Search" /\ call.req.Query = ""

\* the error is one of the two validation errors, with nothing wrapped in it
IsValidationError(e) ==
    /\ e.kind = (IF call.op = "Reader" THEN "URL is required" ELSE "query is required")
    /\ e.code = 0
    /\ e.id = ""

\* C22: a Reader call with an empty URL and a Search call with an empty Query
\* return (nil, validation error) and no HTTP request is ever built or sent,
\* whatever the other fields, the configuration and the context are.
C22_FailFast ==
    MissingTarget =>
        /\ ~httpReq.sent
        /\ ~httpResp.got
        /\ callRet.returned => (callRet.resp.nil /\ IsValidationError(callRet.err))

\* a Reader call without URL, with options set and an API key, has returned
C22_Witness ==
    /\ call.op = "Reader"
    /\ call.req.URL = ""
    /\ call.req.Timeout = 5
    /\ cfg.APIKey # ""
    /\ callRet.returned
    /\ callRet.err.kind = "URL is required"

\* ---------------------------------------------------------------------
\* C23: connection-level failures
\* ---------------------------------------------------------------------

\* the request was handed to client.Do, no response came back, and the call
\* is over
TransportFailed ==
    IF call.op \in StreamOps
    THEN httpReq.sent /\ pc = "failed" /\ status = 0
    ELSE httpReq.sent /\ ~httpResp.got /\ callRet.returned

\* the error the call handed to its caller
ReturnedErr == IF call.op \in StreamOps THEN result ELSE callRet.err

\* C23, as claimed: every endpoint call, Reader and Search included, returns
\* a connection-level failure as the transport's own error, with no message
\* added.
C23_TransportErrorBare ==
    TransportFailed => ReturnedErr = TransportErr

\* C23, amended: Classify, Rerank, Embeddings, Segment, VLM, DeepSearch and
\* the two streaming operations return the transport's own error as it is;
\* Reader and Search return it wrapped under the message `do request`.
C23_TransportErrorBareOrWrapped ==
    TransportFailed =>
        IF call.op \in ReaderOps
        THEN /\ ReturnedErr.kind = "do request"
             /\ ReturnedErr.id = TransportErr.kind
        ELSE ReturnedErr = TransportErr

\* a Search request was sent and the connection failed
C23_Witness ==
    /\ call.op = "Search"
    /\ TransportFailed
    /\ callRet.err.kind = "do request"

\* ---------------------------------------------------------------------
\* C25: result and error of the non-streaming calls
\* ---------------------------------------------------------------------

\* C25: a non-streaming call that has returned hands back either a non-nil
\* response with a nil error or a nil response with a non-nil error, on every
\* path: validation, marshal or request-creation failure, transport failure,
\* status other than 200, decode failure, success.
C25_ResponseXorError ==
    (call.op \notin StreamOps /\ callRet.returned) =>
        (callRet.resp.nil <=> callRet.err # NilErr)

\* a JSON operation got status 200 with a body it could not decode
C25_Witness ==
    /\ call.op = "Classify"
    /\ callRet.returned
    /\ httpResp.got
    /\ httpResp.status = StatusOK
    /\ callRet.err.kind = "failed to decode response"
    /\ callRet.resp.nil

\* ---------------------------------------------------------------------
\* C28: stream, Accept and model of the chat operations
\* ---------------------------------------------------------------------

ChatOps == {"VLM", "DeepSearch", "VLMStream", "DeepSearchStream"}

\* the default model of the operation of the call
DefaultModelOfCall ==
    IF call.op \in {"VLM", "VLMStream"} THEN VLMModelDefault ELSE DeepSearchModelDefault

\* C28: VLM and DeepSearch always send a body without `stream` (false is
\* omitted) and Accept: application/json; VLMStream and DeepSearchStream
\* always send `stream: true` and Accept: text/event-stream, whatever Stream
\* the caller passed; in all four an empty Model is replaced by the default
\* model of the operation and a given Model is kept.
C28_StreamFixedByOperation ==
    (httpReq.sent /\ call.op \in ChatOps) =>
        /\ httpReq.body.val["model"] =
              JString(IF call.req.Model = "" THEN DefaultModelOfCall ELSE call.req.Model)
        /\ IF call.op \in StreamOps
           THEN /\ "stream" \in Keys(httpReq.body)
                /\ httpReq.body.val["stream"] = JBool(TRUE)
                /\ httpReq.header["Accept"] = <<"text/event-stream">>
           ELSE /\ "stream" \notin Keys(httpReq.body)
                /\ httpReq.header["Accept"] = <<"application/json">>

\* a VLM call whose caller asked for a stream and gave no model was sent
C28_Witness ==
    /\ call.op = "VLM"
    /\ call.req.Stream
    /\ call.req.Model = ""
    /\ httpReq.sent
    /\ "stream" \notin Keys(httpReq.body)

\* ---------------------------------------------------------------------
\* C24: the configuration under calls made at the same time
\* ---------------------------------------------------------------------

\* what the call of g must have made of its own argument, told from the
\* argument and the configuration alone
OwnCopy(g) ==
    LET o == running[g].op
        a == running[g].arg
    IN CASE o \in ReaderOps -> [a EXCEPT !.EUCompliance = a.EUCompliance \/ cfg.EUCompliance]
         [] o \in {"VLM", "DeepSearch", "VLMStream", "DeepSearchStream"} ->
              [Model |-> IF a.Model = ""
                         THEN (IF o \in {"VLM", "VLMStream"} THEN VLMModelDefault
                               ELSE DeepSearchModelDefault)
                         ELSE a.Model,
               Stream |-> o \in StreamOps]
         [] OTHER -> a

\* C24: once NewClient has returned no call writes the configuration: in
\* every interleaving of the calls of two goroutines APIKey and EUCompliance
\* keep their construction values, the value each caller passed stays as it
\* was, a step of one call leaves the request of the other call alone, and
\* the forced EUCompliance, the default Model and the Stream flag of a call
\* are found in that call's own copy of the request only.
C24_ConfigReadOnly ==
    /\ [][/\ cfg' = cfg
          /\ \A g \in Callers : running'[g].arg = running[g].arg
          /\ \A g, h \in Callers :
                (g # h /\ running'[g] # running[g]) => running'[h] = running[h]]_vars
    /\ [](\A g \in Callers :
            /\ running[g].pc \in {"prepared", "sent"} => running[g].req = OwnCopy(g)
            /\ running[g].pc = "called" => running[g].req = running[g].arg)

\* both calls are over: the Reader call of g1 had EUCompliance forced on its
\* copy while the caller's value still says false, and the VLMStream call of
\* g2 set Stream on its copy only
C24_Witness ==
    /\ running["g1"].pc = "returned"
    /\ running["g2"].pc = "returned"
    /\ running["g1"].op = "Reader"
    /\ running["g1"].sent.sent
    /\ ~running["g1"].arg.EUCompliance
    /\ running["g1"].req.EUCompliance
    /\ running["g2"].op = "VLMStream"
    /\ running["g2"].sent.sent
    /\ ~running["g2"].arg.Stream
    /\ running["g2"].req.Stream

====
